---- MODULE Spec2Model ----
(***************************************************************************)
(* Model of the Boards API (backend/server.js): the persisted store (users, *)
(* events, interactions, RSVPs) and the handlers that read and write it.    *)
(*                                                                          *)
(* Units.  Scores are kept in thousandths ("milli"): popularityScore 1.0 is *)
(* 1000, trustScore 0.05 is 50.  Times are seconds since Sunday 00:00       *)
(* local time of the week in which the model runs.  Positions lie on one    *)
(* meridian and latitude is measured in kilometres of arc along it, so the  *)
(* great-circle distance of two points is the difference of their           *)
(* latitudes.                                                               *)
(***************************************************************************)
EXTENDS Integers, Sequences, FiniteSets, TLC

\* ------------------------------------------------------------------ bounds
\* Number of feedback requests a behaviour may contain (each request is one
\* call slot; slots run concurrently).
MaxCalls == 2

\* -------------------------------------------------------------- universe
\* null / undefined of a numeric field or input
NoNumber == -1000000

\* undefined of a string input
Undefined == "undefined"

Users == {"u1", "u2"}

\* an id that names no user
GhostUser == "u9"

EventIds == {"e1", "e2"}

\* an id that names no event
GhostEvent == "e9"

Calls == 1..MaxCalls

FeedbackActions == {"view", "cosign", "going", "hide"}

SeqSum(s) == LET RECURSIVE go(_)
                 go(i) == IF i = 0 THEN 0 ELSE s[i] + go(i - 1)
             IN go(Len(s))

Max2(a, b) == IF a >= b THEN a ELSE b

Min2(a, b) == IF a <= b THEN a ELSE b

Abs(a) == IF a < 0 THEN 0 - a ELSE a

SelectIdx(s, Keep(_)) ==
    LET RECURSIVE go(_)
        go(i) == IF i > Len(s) THEN <<>>
                 ELSE IF Keep(s[i]) THEN <<s[i]>> \o go(i + 1) ELSE go(i + 1)
    IN go(1)

\* ------------------------------------------------------------------ state
VARIABLES
    users,          \* user id -> [trustScore, tasteVector, vibePrefs]
    events,         \* event id -> event row (with its embedding), existing events only
    interactions,   \* rows of the interaction table, in creation order
    rsvps,          \* rows of the rsvps table, in creation order
    pc,             \* feedback call slot -> position in the handler
    fb,             \* feedback call slot -> request, event snapshot, response
    last,           \* response of the latest event / RSVP request
    feed,           \* request and response of the latest recommendation request
    interactionOnDelete, \* referential action of Interaction.event in the schema
    lastIndex,      \* keyword pattern -> lastIndex of its RegExp object
    result,         \* arguments and result of the latest call of a library function
    listing         \* request and response of the latest GET /api/events

vars == <<users, events, interactions, rsvps, pc, fb, last, feed, interactionOnDelete,
          lastIndex, result, listing>>

db == <<users, events, interactions, rsvps>>

\* ------------------------------------------------------------------ time
\* Times are whole seconds; on whole seconds a comparison with hh:59:59.999
\* is the comparison with hh:59:59.
Hour == 3600

Day == 24 * Hour

\* new Date(d).setHours(0, 0, 0, 0)
StartOfDay(t) == t - (t % Day)

\* Date.prototype.getDay, Sunday = 0
GetDay(t) == (t \div Day) % 7

\* setMonth(getMonth() + 1); the model's month has 30 days
Month == 30 * Day

NoRange == [gte |-> NoNumber, lte |-> NoNumber]

\* buildTimeFilter({ when }), the clock read passed as now; NoRange stands
\* for the undefined result
buildTimeFilter(when, now) ==
    LET startOfDay == StartOfDay(now)
        endOfDay   == startOfDay + Day
        saturday   == startOfDay + ((6 - GetDay(now) + 7) % 7) * Day
        sunday     == saturday + Day + (Day - 1)
    IN CASE when = "now"     -> [gte |-> now, lte |-> now + 2 * Hour]
         [] when = "tonight" -> [gte |-> startOfDay + 17 * Hour, lte |-> endOfDay]
         [] when = "weekend" -> [gte |-> saturday, lte |-> sunday]
         [] when = "month"   -> [gte |-> now, lte |-> startOfDay + Month]
         [] OTHER            -> NoRange

\* the condition with its lower bound left out
InTimeRange_UpperOnly(t, range) == range.lte = NoNumber \/ t <= range.lte

\* the startTime condition of prisma.event.findMany
InTimeRange(t, range) ==
    /\ range.gte = NoNumber \/ t >= range.gte
    /\ range.lte = NoNumber \/ t <= range.lte

\* bucketByWhen(eventDate, when); "null" is the result for no when
bucketByWhen(eventDate, when, now) ==
    LET tonightStart == StartOfDay(now) + 17 * Hour
        endOfDay     == StartOfDay(now) + (Day - 1)
        saturday     == StartOfDay(now) + ((6 - GetDay(now) + 7) % 7) * Day
        sunday       == saturday + Day + (Day - 1)
    IN IF when = Undefined THEN "null"
       ELSE IF when = "now" /\ eventDate <= now + 2 * Hour THEN "now"
       ELSE IF when = "tonight" /\ eventDate >= tonightStart /\ eventDate <= endOfDay
            THEN "tonight"
       ELSE IF when = "weekend" /\ eventDate >= saturday /\ eventDate <= sunday
            THEN "weekend"
       ELSE "later"

\* --------------------------------------------------------------- geometry
\* calculateDistance: null when a coordinate is absent, else the haversine
\* distance, which for two points of one meridian is the arc between them
calculateDistance(lat1, lon1, lat2, lon2) ==
    IF lat1 = NoNumber \/ lon1 = NoNumber \/ lat2 = NoNumber \/ lon2 = NoNumber
    THEN NoNumber
    ELSE Abs(lat2 - lat1)

\* ---------------------------------------------------------------- vectors
Dot(a, b) == SeqSum([i \in 1..Len(a) |-> a[i] * b[i]])

\* round(num / den) for num >= 0, den > 0
RoundDiv(num, den) == (2 * num + den) \div (2 * den)

\* round(1000 * x / sqrt(n)) for x >= 0, n > 0
RoundRootRatio(x, n) ==
    CHOOSE c \in 0..1000 :
        /\ c = 0 \/ (2 * c - 1) * (2 * c - 1) * n <= 4000000 * x * x
        /\ 4000000 * x * x < (2 * c + 1) * (2 * c + 1) * n

\* the length and magnitude tests dropped: 0 / 0, which is NaN
cosineSimilarity_Unguarded(a, b) ==
    IF Len(a) = 0 \/ Len(b) = 0 \/ Len(a) # Len(b) THEN NoNumber
    ELSE IF Dot(a, a) = 0 \/ Dot(b, b) = 0 THEN NoNumber
    ELSE IF Dot(a, b) >= 0
         THEN RoundRootRatio(Dot(a, b), Dot(a, a) * Dot(b, b))
         ELSE 0 - RoundRootRatio(0 - Dot(a, b), Dot(a, a) * Dot(b, b))

\* cosineSimilarity(a = [], b = []), in thousandths
cosineSimilarity(a, b) ==
    IF Len(a) = 0 \/ Len(b) = 0 \/ Len(a) # Len(b) THEN 0
    ELSE IF Dot(a, a) = 0 \/ Dot(b, b) = 0 THEN 0
    ELSE IF Dot(a, b) >= 0
         THEN RoundRootRatio(Dot(a, b), Dot(a, a) * Dot(b, b))
         ELSE 0 - RoundRootRatio(0 - Dot(a, b), Dot(a, a) * Dot(b, b))

\* the comparison of the lengths dropped: a longer a reads b[index] past the
\* end of b (undefined, so NaN), a shorter a ignores the tail of b in the dot
EmbeddingsCosineSimilarity_NoLengthTest(a, b) ==
    IF Len(a) = 0 THEN 0
    ELSE IF Len(a) > Len(b) THEN NoNumber
    ELSE LET dot == SeqSum([i \in 1..Len(a) |-> a[i] * b[i]])
         IN IF Dot(a, a) = 0 \/ Dot(b, b) = 0 THEN 0
            ELSE IF dot >= 0
                 THEN RoundRootRatio(dot, Dot(a, a) * Dot(b, b))
                 ELSE 0 - RoundRootRatio(0 - dot, Dot(a, a) * Dot(b, b))

\* cosineSimilarity(a, b) of the embeddings module, in thousandths; an absent
\* argument (!a) is the empty tuple
EmbeddingsCosineSimilarity(a, b) ==
    IF Len(a) # Len(b) \/ Len(a) = 0 THEN 0
    ELSE IF Dot(a, a) = 0 \/ Dot(b, b) = 0 THEN 0
    ELSE IF Dot(a, b) >= 0
         THEN RoundRootRatio(Dot(a, b), Dot(a, a) * Dot(b, b))
         ELSE 0 - RoundRootRatio(0 - Dot(a, b), Dot(a, a) * Dot(b, b))

\* a value that is no number: the function an object literal inherits
\* under "constructor" or "toString"
FunctionValue == 0 - 2000000

\* keys every object literal answers to through Object.prototype
InheritedKeys == {"constructor", "toString"}

\* the table with the sign of hide lost
POPULARITY_IMPACT_SignLost(action) ==
    CASE action = "view"   -> 100
      [] action = "cosign" -> 600
      [] action = "going"  -> 1000
      [] action = "hide"   -> 800
      [] action \in InheritedKeys -> FunctionValue
      [] OTHER             -> 0

\* the table answering every action it does not list with the delta of view
POPULARITY_IMPACT_DefaultView(action) ==
    CASE action = "view"   -> 100
      [] action = "cosign" -> 600
      [] action = "going"  -> 1000
      [] action = "hide"   -> 0 - 800
      [] action \in InheritedKeys -> FunctionValue
      [] OTHER             -> 100

\* ------------------------------------------------------ store primitives
\* POPULARITY_IMPACT[action] ?? 0: the entry of the table, the inherited
\* function for a key of Object.prototype, 0 for any other action
POPULARITY_IMPACT(action) ==
    CASE action = "view"   -> 100
      [] action = "cosign" -> 600
      [] action = "going"  -> 1000
      [] action = "hide"   -> 0 - 800
      [] action \in InheritedKeys -> FunctionValue
      [] OTHER             -> 0

\* the trust update without its guard
IsPositiveSignal_Always(action) == TRUE

\* the guard of the host-trust update
IsPositiveSignal(action) == action = "going" \/ action = "cosign"

\* Math.max(popularityDelta, 0) * 0.05
TrustIncrement(popularityDelta) == (Max2(popularityDelta, 0) * 5) \div 100

\* the increment as a read-modify-write of the row the handler read earlier
IncrementPopularity_ReadModifyWrite(evs, eventId, snapshot, delta) ==
    [evs EXCEPT ![eventId].popularityScore = snapshot.popularityScore + delta]

\* prisma.event.update({ data: { popularityScore: { increment } } }): the
\* store adds to the row's current value; the snapshot the handler read
\* earlier takes no part in it.
IncrementPopularity(evs, eventId, snapshot, delta) ==
    [evs EXCEPT ![eventId].popularityScore = @ + delta]

\* prisma.user.update({ data: { trustScore: { increment } } })
IncrementTrust(us, userId, amount) ==
    [us EXCEPT ![userId].trustScore = @ + amount]

\* the existence check without the user
LookupMissing_EventOnly(userId, eventId) == eventId \notin DOMAIN events

\* !user || !event
LookupMissing(userId, eventId) ==
    userId \notin DOMAIN users \/ eventId \notin DOMAIN events

\* the data of prisma.interaction.create; the row id is generated by the
\* store and is unique (here: the number of the call that created it)
InteractionRow(p, userId, eventId, action, dwellMs) ==
    [id |-> p, userId |-> userId, eventId |-> eventId, action |-> action,
     dwellMs |-> IF dwellMs # NoNumber THEN dwellMs ELSE NoNumber]

\* the create as an upsert on (userId, eventId)
CreateInteraction_Upsert(rows, row) ==
    Append(SelectIdx(rows, LAMBDA r : ~(r.userId = row.userId /\ r.eventId = row.eventId)), row)

\* prisma.interaction.create: one more row, the others as they were
CreateInteraction(rows, row) == Append(rows, row)

\* the error handler: res.status(err.status || 500); the errors of the
\* store carry no status
ErrorStatus(err) == 500

NoCall == [userId |-> Undefined, eventId |-> Undefined, action |-> Undefined,
           dwellMs |-> NoNumber, hostId |-> Undefined, snapPopularity |-> 0,
           status |-> 0, err |-> "none"]

\* ------------------------------------------------------------- embeddings
\* Weights are kept in hundredths.  A vector divided by its magnitude is kept
\* exactly, as the vector of numerators and the square of the magnitude:
\* component i of [num |-> v, den2 |-> m] is v[i] / sqrt(m).
Dims == 1..8

\* new Array(8).fill(0)
ZeroVector == [d \in Dims |-> 0]

\* a weights object { dim: weight, ... } as the vector it adds
Weights(pairs) ==
    [d \in Dims |-> SeqSum([k \in 1..Len(pairs) |->
                              IF pairs[k][1] = d - 1 THEN pairs[k][2] ELSE 0])]

AddVec(a, b) == [d \in Dims |-> a[d] + b[d]]

\* VIBE_WEIGHTS[vibe]; a tag the table does not know adds nothing
VIBE_WEIGHTS(vibe) ==
    CASE vibe = "Wild"         -> Weights(<< <<0, 100>>, <<5, 70>> >>)
      [] vibe = "Loud"         -> Weights(<< <<0, 90>>, <<5, 60>> >>)
      [] vibe = "Chill"        -> Weights(<< <<0, 0 - 80>>, <<7, 40>> >>)
      [] vibe = "Intimate"     -> Weights(<< <<0, 0 - 60>>, <<2, 0 - 70>> >>)
      [] vibe = "Creative"     -> Weights(<< <<1, 90>> >>)
      [] vibe = "Artsy"        -> Weights(<< <<1, 80>>, <<7, 30>> >>)
      [] vibe = "Community"    -> Weights(<< <<2, 80>> >>)
      [] vibe = "Foodie"       -> Weights(<< <<3, 100>> >>)
      [] vibe = "Professional" -> Weights(<< <<6, 90>> >>)
      [] vibe = "Zen"          -> Weights(<< <<7, 90>>, <<0, 0 - 50>> >>)
      [] OTHER                 -> ZeroVector

\* EVENT_TYPE_WEIGHTS[event.eventType] || EVENT_TYPE_WEIGHTS.other
EVENT_TYPE_WEIGHTS(eventType) ==
    CASE eventType = "party"      -> Weights(<< <<0, 90>>, <<5, 90>>, <<2, 50>> >>)
      [] eventType = "dance"      -> Weights(<< <<0, 80>>, <<5, 70>>, <<4, 60>> >>)
      [] eventType = "concert"    -> Weights(<< <<0, 70>>, <<1, 60>>, <<5, 60>>, <<2, 40>> >>)
      [] eventType = "festival"   -> Weights(<< <<0, 60>>, <<2, 90>>, <<1, 50>> >>)
      [] eventType = "art"        -> Weights(<< <<1, 90>>, <<0, 0 - 30>> >>)
      [] eventType = "theatre"    -> Weights(<< <<1, 80>>, <<0, 0 - 20>> >>)
      [] eventType = "music"      -> Weights(<< <<1, 70>>, <<0, 30>> >>)
      [] eventType = "workshop"   -> Weights(<< <<1, 60>>, <<6, 40>> >>)
      [] eventType = "food"       -> Weights(<< <<3, 90>>, <<2, 30>> >>)
      [] eventType = "market"     -> Weights(<< <<3, 50>>, <<2, 60>>, <<1, 40>> >>)
      [] eventType = "sports"     -> Weights(<< <<4, 90>>, <<0, 40>> >>)
      [] eventType = "networking" -> Weights(<< <<6, 90>>, <<0, 0 - 40>> >>)
      [] eventType = "talk"       -> Weights(<< <<6, 70>>, <<1, 30>> >>)
      [] eventType = "meetup"     -> Weights(<< <<6, 50>>, <<2, 50>> >>)
      [] eventType = "wellness"   -> Weights(<< <<7, 90>>, <<0, 0 - 60>> >>)
      [] eventType = "community"  -> Weights(<< <<2, 80>>, <<0, 10>> >>)
      [] OTHER                    -> ZeroVector

\* the flags of every pattern literal of KEYWORD_PATTERNS with g added
PatternFlags_Global == "gi"

\* the flags of every pattern literal of KEYWORD_PATTERNS: /.../i
PatternFlags == "i"

\* one entry { pattern: /\b(w1|w2|...)\b/flags, weights }
Pattern(words, pairs) == [words |-> words, flags |-> PatternFlags, weights |-> Weights(pairs)]

\* Object.values(KEYWORD_PATTERNS), flattened in iteration order
KEYWORD_PATTERNS ==
    << Pattern({"rave", "rager", "wild", "crazy", "insane", "lit"}, << <<0, 30>>, <<5, 30>> >>),
       Pattern({"chill", "relax", "calm", "peaceful", "quiet"}, << <<0, 0 - 30>>, <<7, 20>> >>),
       Pattern({"intense", "hardcore", "aggressive"}, << <<0, 40>>, <<4, 20>> >>),
       Pattern({"art", "artistic", "creative", "gallery", "exhibition"}, << <<1, 30>> >>),
       Pattern({"paint", "drawing", "sculpture", "installation"}, << <<1, 40>> >>),
       Pattern({"music", "musical", "band", "dj", "live"}, << <<1, 20>>, <<0, 20>> >>),
       Pattern({"intimate", "small", "exclusive", "limited"}, << <<2, 0 - 30>> >>),
       Pattern({"community", "everyone", "open", "public"}, << <<2, 30>> >>),
       Pattern({"massive", "huge", "big", "large"}, << <<2, 40>> >>),
       Pattern({"food", "eat", "dining", "restaurant", "cuisine"}, << <<3, 30>> >>),
       Pattern({"wine", "beer", "cocktail", "drinks"}, << <<3, 20>>, <<5, 20>> >>),
       Pattern({"chef", "cooking", "tasting", "culinary"}, << <<3, 40>> >>),
       Pattern({"sport", "athletic", "fitness", "exercise", "workout"}, << <<4, 40>> >>),
       Pattern({"run", "bike", "hike", "climb", "skate"}, << <<4, 30>> >>),
       Pattern({"night", "midnight", "late", "afterdark"}, << <<5, 30>> >>),
       Pattern({"club", "clubbing", "dancing", "nightclub"}, << <<5, 40>>, <<0, 30>> >>),
       Pattern({"network", "business", "career", "professional"}, << <<6, 30>> >>),
       Pattern({"startup", "entrepreneur", "tech", "innovation"}, << <<6, 40>> >>),
       Pattern({"conference", "seminar", "presentation", "talk"}, << <<6, 30>> >>),
       Pattern({"wellness", "meditation", "yoga", "mindful"}, << <<7, 40>> >>),
       Pattern({"healing", "therapy", "spiritual", "zen"}, << <<7, 30>> >>),
       Pattern({"soundbath", "breathwork", "holistic"}, << <<7, 50>> >>) >>

PatternIds == 1..Len(KEYWORD_PATTERNS)

\* `${event.title || ''} ${event.description || ''}`.toLowerCase() is kept as
\* the sequence of its words.
\* RegExp.prototype.test on a text given as its words, positions counted in
\* words: a pattern without the g flag searches from the start and leaves
\* lastIndex alone; with g it searches from lastIndex, sets lastIndex to the
\* end of the match, and to 0 when nothing matches.
RegExpTest(pattern, text, index) ==
    LET global == pattern.flags = "gi"
        hits   == {i \in 1..Len(text) :
                      text[i] \in pattern.words /\ (global => i > index)}
    IN IF hits = {}
       THEN [found |-> FALSE, lastIndex |-> IF global THEN 0 ELSE index]
       ELSE [found |-> TRUE,
             lastIndex |-> IF global THEN CHOOSE i \in hits : \A j \in hits : i <= j
                           ELSE index]

\* new Date(event.startTime).getHours()
GetHours(t) == (t % Day) \div Hour

\* the magnitude test dropped: the division is always made
normalizeVector_NoZeroGuard(vector) == [num |-> vector, den2 |-> Dot(vector, vector)]

\* normalizeVector: the vector itself when its magnitude is 0, else the
\* vector divided by its magnitude
normalizeVector(vector) ==
    IF Dot(vector, vector) = 0 THEN [num |-> vector, den2 |-> 1]
    ELSE [num |-> vector, den2 |-> Dot(vector, vector)]

\* steps 1 to 6 of generateEventEmbedding: the vector before normalisation
EmbeddingSum(event) ==
    LET text     == event.title \o event.description
        RECURSIVE addVibes(_)
        addVibes(k) == IF k = 0 THEN ZeroVector
                       ELSE AddVec(addVibes(k - 1), VIBE_WEIGHTS(event.vibe[k]))
        type     == [d \in Dims |-> (EVENT_TYPE_WEIGHTS(event.eventType)[d] * 12) \div 10]
        RECURSIVE addPatterns(_)
        addPatterns(k) ==
            IF k = 0 THEN ZeroVector
            ELSE AddVec(addPatterns(k - 1),
                        IF RegExpTest(KEYWORD_PATTERNS[k], text, lastIndex[k]).found
                        THEN KEYWORD_PATTERNS[k].weights ELSE ZeroVector)
        hour     == GetHours(event.startTime)
        time     == Weights(
                      (IF event.startTime # NoNumber /\ (hour >= 18 \/ hour <= 2)
                       THEN << <<5, 40>> >> ELSE <<>>)
                      \o (IF event.startTime # NoNumber /\ hour >= 6 /\ hour <= 9
                          THEN << <<7, 30>> >> ELSE <<>>))
        capacity == Weights(
                      IF event.capacity = NoNumber \/ event.capacity = 0 THEN <<>>
                      ELSE IF event.capacity <= 30 THEN << <<2, 0 - 30>> >>
                      ELSE IF event.capacity >= 200 THEN << <<2, 40>> >>
                      ELSE <<>>)
        age      == Weights(
                      IF event.ageRestriction \in {"19+", "21+"}
                      THEN << <<5, 30>>, <<0, 20>> >>
                      ELSE IF event.ageRestriction = "All ages" THEN << <<2, 20>> >>
                      ELSE <<>>)
    IN AddVec(AddVec(AddVec(addVibes(Len(event.vibe)), type), addPatterns(Len(KEYWORD_PATTERNS))),
              AddVec(AddVec(time, capacity), age))

\* generateEventEmbedding(event)
generateEventEmbedding(event) == normalizeVector(EmbeddingSum(event))

\* the lastIndex of every pattern after generateEventEmbedding(event)
PatternsAfter(event) ==
    [k \in PatternIds |->
        RegExpTest(KEYWORD_PATTERNS[k], event.title \o event.description, lastIndex[k]).lastIndex]

\* ------------------------------------------------------ taste vector
\* Action weights are kept in tenths.  The age of an interaction is counted
\* in half-lives: the decay factor of age h is 1 / 2^h, kept as the integer
\* 2^(MaxAge - h); the dwell boost is kept in halves.
MaxAge == 1

\* b^n
Power(b, n) == LET RECURSIVE go(_)
                   go(k) == IF k = 0 THEN 1 ELSE b * go(k - 1)
               IN go(n)

\* actionWeights = { going: 1.0, cosign: 0.8, view: 0.1, hide: -0.5 }
DefaultActionWeights == [going |-> 10, cosign |-> 8, view |-> 1, hide |-> 0 - 5]

DefaultOptions == [actionWeights |-> DefaultActionWeights, recencyDecay |-> TRUE]

\* [] as a result
EmptyVector == [num |-> <<>>, den2 |-> 1]

\* Array.isArray(embedding) && embedding.length === 8
ValidEmbedding(embedding) == Len(embedding) = 8

\* the effective weight of one interaction: actionWeights[action] || 0, the
\* recency decay when enabled and createdAt is set, the dwell boost
\* Math.min(2, 1 + dwellMs / 30000) of a view with a dwell time
EffectiveWeight(interaction, options) ==
    LET base  == IF interaction.action \in DOMAIN options.actionWeights
                 THEN options.actionWeights[interaction.action] ELSE 0
        decay == IF options.recencyDecay /\ interaction.age # NoNumber
                 THEN Power(2, MaxAge - interaction.age) ELSE Power(2, MaxAge)
        boost == IF /\ interaction.action = "view"
                    /\ interaction.dwellMs # NoNumber /\ interaction.dwellMs # 0
                 THEN Min2(4, 2 + interaction.dwellMs \div 15000) ELSE 2
    IN base * decay * boost

\* the accumulated vector: weight times embedding over the interactions that
\* have a valid embedding and a weight other than 0
WeightedSum(history, options) ==
    LET RECURSIVE go(_)
        go(k) ==
            IF k = 0 THEN ZeroVector
            ELSE IF /\ ValidEmbedding(history[k].embedding)
                    /\ EffectiveWeight(history[k], options) # 0
                 THEN [d \in Dims |-> go(k - 1)[d]
                          + history[k].embedding[d] * EffectiveWeight(history[k], options)]
                 ELSE go(k - 1)
    IN go(Len(history))

\* !interactions || interactions.length === 0
ReturnsEmpty(history, options) == Len(history) = 0

\* computeUserTasteVector(interactions, options).  The division of the sum
\* by the positive totalWeight does not change where the vector points, and
\* normalizeVector divides by the magnitude next.
computeUserTasteVector(history, options) ==
    IF ReturnsEmpty(history, options) THEN EmptyVector
    ELSE normalizeVector(WeightedSum(history, options))

\* --------------------------------------------------------------- initial
EventSeed ==
    [e \in EventIds |->
        [hostId          |-> IF e = "e1" THEN "u1" ELSE "u2",
         title           |-> IF e = "e1" THEN <<"halloween", "rager">> ELSE <<"sunrise", "yoga">>,
         description     |-> <<>>,
         eventType       |-> IF e = "e1" THEN "party" ELSE "wellness",
         capacity        |-> IF e = "e1" THEN 50 ELSE NoNumber,
         ageRestriction  |-> IF e = "e1" THEN "All ages" ELSE Undefined,
         latitude        |-> IF e = "e1" THEN 2 ELSE 8,
         longitude       |-> 0,
         startTime       |-> IF e = "e1" THEN 18 * Hour ELSE 6 * Day + 10 * Hour,
         vibe            |-> IF e = "e1" THEN <<"Chill", "Wild">> ELSE <<"Zen">>,
         popularityScore |-> 0,
         trustScore      |-> 0,
         embedding       |-> IF e = "e1" THEN <<1, 0, 0, 0, 0, 1, 0, 0>> ELSE <<>>]]

UserSeed ==
    [u \in Users |->
        [trustScore  |-> IF u = "u1" THEN 0 ELSE 500,
         tasteVector |-> <<>>,
         vibePrefs   |-> IF u = "u1" THEN <<"Chill">> ELSE <<>>]]

NoResponse == [op |-> "none", userId |-> Undefined, eventId |-> Undefined, status |-> 0]

Response(op, userId, eventId, status) ==
    [op |-> op, userId |-> userId, eventId |-> eventId, status |-> status]

NoFeed == [status |-> 0]

NoOutput == [op |-> "none"]

NoListing == [status |-> 0]

Init ==
    /\ users = UserSeed
    /\ events = EventSeed
    /\ interactions = <<>>
    /\ rsvps = <<>>
    /\ pc = [p \in Calls |-> "idle"]
    /\ fb = [p \in Calls |-> NoCall]
    /\ last = NoResponse
    /\ feed = NoFeed
    /\ interactionOnDelete \in {"Cascade", "Restrict"}
    /\ lastIndex = [k \in PatternIds |-> 0]
    /\ result = NoOutput
    /\ listing = NoListing

\* ------------------------------------------- POST /api/reco/feedback
Finish(p, call, status, err) ==
    /\ pc' = [pc EXCEPT ![p] = "done"]
    /\ fb' = [fb EXCEPT ![p] = [call EXCEPT !.status = status, !.err = err]]

\* Request arrival up to the first await: the required-field check and the
\* two lookups.
FeedbackLookup(p, userId, eventId, action, dwellMs) ==
    /\ pc[p] = "idle"
    /\ \A q \in Calls : q < p => pc[q] # "idle"
    /\ LET call == [NoCall EXCEPT !.userId = userId, !.eventId = eventId,
                                  !.action = action, !.dwellMs = dwellMs]
       IN IF userId = Undefined \/ eventId = Undefined \/ action = Undefined
          THEN Finish(p, call, 400, "none")
          ELSE IF LookupMissing(userId, eventId)
          THEN Finish(p, call, 404, "none")
          ELSE /\ pc' = [pc EXCEPT ![p] = "create"]
               /\ fb' = [fb EXCEPT ![p] =
                           [call EXCEPT !.hostId = events[eventId].hostId,
                                        !.snapPopularity = events[eventId].popularityScore]]
    /\ UNCHANGED <<db, last, feed, interactionOnDelete, lastIndex, result, listing>>

\* prisma.interaction.create, then the delta lookup.  The row references its
\* event and its user: the store refuses it when either row is gone.
FeedbackCreate(p) ==
    /\ pc[p] = "create"
    /\ LET call == fb[p]
       IN IF call.eventId \notin DOMAIN events \/ call.userId \notin DOMAIN users
          THEN /\ Finish(p, call, ErrorStatus("P2003"), "P2003")
               /\ UNCHANGED interactions
          ELSE /\ interactions' = CreateInteraction(interactions,
                      InteractionRow(p, call.userId, call.eventId, call.action, call.dwellMs))
               /\ IF POPULARITY_IMPACT(call.action) # 0
                  THEN /\ pc' = [pc EXCEPT ![p] = "popularity"]
                       /\ UNCHANGED fb
                  ELSE Finish(p, call, 201, "none")
    /\ UNCHANGED <<users, events, rsvps, last, feed, interactionOnDelete, lastIndex, result, listing>>

\* prisma.event.update with an increment; an increment that is no number
\* is refused by the client before the store is asked, a missing row
\* throws P2025
FeedbackPopularity(p) ==
    /\ pc[p] = "popularity"
    /\ LET call == fb[p]
       IN IF POPULARITY_IMPACT(call.action) = FunctionValue
          THEN /\ Finish(p, call, ErrorStatus("validation"), "validation")
               /\ UNCHANGED events
          ELSE IF call.eventId \notin DOMAIN events
          THEN /\ Finish(p, call, ErrorStatus("P2025"), "P2025")
               /\ UNCHANGED events
          ELSE /\ events' = IncrementPopularity(events, call.eventId,
                                [popularityScore |-> call.snapPopularity],
                                POPULARITY_IMPACT(call.action))
               /\ IF IsPositiveSignal(call.action)
                  THEN /\ pc' = [pc EXCEPT ![p] = "trust"]
                       /\ UNCHANGED fb
                  ELSE Finish(p, call, 201, "none")
    /\ UNCHANGED <<users, interactions, rsvps, last, feed, interactionOnDelete, lastIndex, result, listing>>

\* prisma.user.update of the host with an increment, then the response
FeedbackTrust(p) ==
    /\ pc[p] = "trust"
    /\ LET call == fb[p]
       IN IF call.hostId \notin DOMAIN users
          THEN /\ Finish(p, call, ErrorStatus("P2025"), "P2025")
               /\ UNCHANGED users
          ELSE /\ users' = IncrementTrust(users, call.hostId,
                                TrustIncrement(POPULARITY_IMPACT(call.action)))
               /\ Finish(p, call, 201, "none")
    /\ UNCHANGED <<events, interactions, rsvps, last, feed, interactionOnDelete, lastIndex, result, listing>>

\* The request bodies the model sends: every action on e1 by an existing
\* user, a view with a dwell time, one action on e2, and the malformed and
\* dangling ones.
FeedbackRequests ==
    {r \in [userId : {"u2", GhostUser}, eventId : EventIds \cup {GhostEvent},
            action : FeedbackActions \cup {Undefined}, dwellMs : {NoNumber, 1500}] :
        /\ r.userId = GhostUser => r.eventId = "e1" /\ r.action = "going"
        /\ r.eventId = GhostEvent => r.action = "going"
        /\ r.eventId = "e2" => r.action = "hide"
        /\ r.action = Undefined => r.eventId = "e1"
        /\ r.dwellMs # NoNumber => r.action = "view" /\ r.eventId = "e1"}

Feedback(p) ==
    \/ \E r \in FeedbackRequests :
          FeedbackLookup(p, r.userId, r.eventId, r.action, r.dwellMs)
    \/ FeedbackCreate(p)
    \/ FeedbackPopularity(p)
    \/ FeedbackTrust(p)

\* ------------------------------------------- GET /api/events
\* buildTimeFilter(req.query): startDate / endDate come before when
QueryTimeFilter(startDate, endDate, when, now) ==
    IF startDate # NoNumber \/ endDate # NoNumber
    THEN [gte |-> startDate, lte |-> endDate]
    ELSE buildTimeFilter(when, now)

\* the where object: the time range, vibe: { hasSome } and the search over
\* the text columns (a search term is one word)
MatchesWhere(event, range, vibeTags, search) ==
    /\ InTimeRange(event.startTime, range)
    /\ vibeTags # {} => \E k \in 1..Len(event.vibe) : event.vibe[k] \in vibeTags
    /\ search # Undefined =>
          \E k \in 1..Len(event.title \o event.description) :
              (event.title \o event.description)[k] = search

\* the first of radiusKm, radius that is a number above 0, else 10 with a
\* location and null without
MaxRadiusKm(radiusKm, radius, located) ==
    IF radiusKm # NoNumber /\ radiusKm > 0 THEN radiusKm
    ELSE IF radius # NoNumber /\ radius > 0 THEN radius
    ELSE IF located THEN 10 ELSE NoNumber

\* the radius test dropped from the filter of the listing
InListingRadius_Unbounded(distanceKm, maxRadiusKm) == TRUE

\* maxRadiusKm != null ? distanceKm != null && distanceKm <= maxRadiusKm
\*                     : distanceKm != null
InListingRadius(distanceKm, maxRadiusKm) ==
    IF maxRadiusKm # NoNumber THEN distanceKm # NoNumber /\ distanceKm <= maxRadiusKm
    ELSE distanceKm # NoNumber

\* .sort((a, b) => (a.distanceKm ?? 0) - (b.distanceKm ?? 0)), stable
InsertByDistance(sorted, x) ==
    LET key(c) == IF c.distanceKm = NoNumber THEN 0 ELSE c.distanceKm
        k == Cardinality({i \in 1..Len(sorted) :
                            \A j \in 1..i : key(sorted[j]) <= key(x)})
    IN SubSeq(sorted, 1, k) \o <<x>> \o SubSeq(sorted, k + 1, Len(sorted))

SortByDistance(s) ==
    LET RECURSIVE go(_)
        go(i) == IF i = 0 THEN <<>> ELSE InsertByDistance(go(i - 1), s[i])
    IN go(Len(s))

\* The whole handler.  q is the parsed query (lat / lng stand for near or
\* lat and lng, NoNumber when they do not parse); order is the order in which
\* the store returns the matching events, by startTime ascending.
ListEvents(q, now, order) ==
    /\ LET located  == q.lat # NoNumber /\ q.lng # NoNumber
           range    == QueryTimeFilter(q.startDate, q.endDate, q.when, now)
           matching == {e \in DOMAIN events :
                           MatchesWhere(events[e], range, q.vibeTags, q.search)}
           maxRadiusKm == MaxRadiusKm(q.radiusKm, q.radius, located)
       IN /\ order \in [1..Cardinality(matching) -> matching]
          /\ \A i, j \in 1..Len(order) :
                i < j => /\ order[i] # order[j]
                         /\ events[order[i]].startTime <= events[order[j]].startTime
          /\ LET found  == [i \in 1..Len(order) |->
                               [id |-> order[i],
                                distanceKm |-> IF located
                                               THEN calculateDistance(q.lat, q.lng,
                                                        events[order[i]].latitude,
                                                        events[order[i]].longitude)
                                               ELSE NoNumber]]
                 listed == IF located
                           THEN SortByDistance(SelectIdx(found,
                                   LAMBDA c : InListingRadius(c.distanceKm, maxRadiusKm)))
                           ELSE found
             IN listing' = [status |-> 200, req |-> q, located |-> located, events |-> listed]
    /\ UNCHANGED <<db, pc, fb, last, feed, interactionOnDelete, lastIndex, result>>

\* ------------------------------------------- POST /api/events
\* ids the store has not handed out yet
NewEventIds == {"e3"}

\* !title || !startTime || !address || !latitude || !longitude: a missing
\* field, and also a numeric 0
MissingRequired(body) ==
    \/ body.title = <<>> \/ body.startTime = NoNumber
    \/ body.latitude = NoNumber \/ body.latitude = 0
    \/ body.longitude = NoNumber \/ body.longitude = 0

\* the data of prisma.event.create; the columns the handler does not set
\* take their defaults, and no embedding row is written
NewEvent(userId, body) ==
    [hostId          |-> userId,
     title           |-> body.title,
     description     |-> body.description,
     eventType       |-> IF body.eventType = Undefined THEN "other" ELSE body.eventType,
     capacity        |-> IF body.capacity = NoNumber \/ body.capacity = 0
                         THEN NoNumber ELSE body.capacity,
     ageRestriction  |-> body.ageRestriction,
     latitude        |-> body.latitude,
     longitude       |-> body.longitude,
     startTime       |-> body.startTime,
     vibe            |-> body.vibe,
     popularityScore |-> 0,
     trustScore      |-> 0,
     embedding       |-> <<>>]

CreateEvent(userId, body) ==
    /\ NewEventIds \ DOMAIN events # {}
    /\ LET id == CHOOSE e \in NewEventIds : e \notin DOMAIN events
       IN IF MissingRequired(body)
          THEN /\ last' = Response("createEvent", userId, Undefined, 400)
               /\ UNCHANGED db
          ELSE /\ events' = [e \in DOMAIN events \cup {id} |->
                                IF e = id THEN NewEvent(userId, body) ELSE events[e]]
               /\ last' = Response("createEvent", userId, id, 201)
               /\ UNCHANGED <<users, interactions, rsvps>>
    /\ UNCHANGED <<pc, fb, feed, interactionOnDelete, lastIndex, result, listing>>

\* ------------------------------------------- PUT /api/events/:id
\* the ownership test dropped
NotAuthorized_Never(event, userId) == FALSE

\* event.hostId !== req.user.id
NotAuthorized(event, userId) == event.hostId # userId

\* const updatableFields = [...]: the ones the model's events carry
\* the list with the columns of the scores and of the ownership in it
UpdatableFields_WithScores ==
    {"title", "description", "startTime", "latitude", "longitude", "vibe",
     "eventType", "capacity", "ageRestriction", "popularityScore", "trustScore", "hostId"}

UpdatableFields ==
    {"title", "description", "startTime", "latitude", "longitude", "vibe",
     "eventType", "capacity", "ageRestriction"}

\* the data object built from the body: the fields the body defines and
\* that may be updated
UpdateData(body) == [f \in DOMAIN body \cap UpdatableFields |-> body[f]]

\* the row written afresh: the data over the column defaults
ApplyUpdate_ResetsPopularity(event, data) ==
    [f \in DOMAIN event |-> IF f \in DOMAIN data THEN data[f]
                            ELSE IF f = "popularityScore" THEN 0 ELSE event[f]]

\* prisma.event.update: the row with the data written over it; nothing
\* else of the row, and no embedding row, is touched
ApplyUpdate(event, data) ==
    [f \in DOMAIN event |-> IF f \in DOMAIN data THEN data[f] ELSE event[f]]

\* startTime is a required column: null for it is refused by the store
InvalidData(data) == "startTime" \in DOMAIN data /\ data.startTime = NoNumber

UpdateEvent(userId, eventId, body) ==
    /\ IF eventId \notin DOMAIN events
       THEN /\ last' = Response("updateEvent", userId, eventId, 404)
            /\ UNCHANGED db
       ELSE IF NotAuthorized(events[eventId], userId)
       THEN /\ last' = Response("updateEvent", userId, eventId, 403)
            /\ UNCHANGED db
       ELSE IF InvalidData(UpdateData(body))
       THEN /\ last' = Response("updateEvent", userId, eventId, ErrorStatus("validation"))
            /\ UNCHANGED db
       ELSE /\ events' = [events EXCEPT ![eventId] = ApplyUpdate(@, UpdateData(body))]
            /\ last' = Response("updateEvent", userId, eventId, 200)
            /\ UNCHANGED <<users, interactions, rsvps>>
    /\ UNCHANGED <<pc, fb, feed, interactionOnDelete, lastIndex, result, listing>>

\* ------------------------------------------- DELETE /api/events/:id
\* Rows that reference the event go with it (ON DELETE CASCADE of rsvps and
\* of the embedding); interactions follow the schema's referential action.
DeleteEvent(userId, eventId) ==
    /\ IF eventId \notin DOMAIN events
       THEN /\ last' = Response("deleteEvent", userId, eventId, 404)
            /\ UNCHANGED db
       ELSE IF NotAuthorized(events[eventId], userId)
       THEN /\ last' = Response("deleteEvent", userId, eventId, 403)
            /\ UNCHANGED db
       ELSE IF /\ interactionOnDelete = "Restrict"
               /\ \E i \in 1..Len(interactions) : interactions[i].eventId = eventId
       THEN /\ last' = Response("deleteEvent", userId, eventId, ErrorStatus("P2003"))
            /\ UNCHANGED db
       ELSE /\ events' = [e \in DOMAIN events \ {eventId} |-> events[e]]
            /\ rsvps' = SelectIdx(rsvps, LAMBDA r : r.eventId # eventId)
            /\ interactions' = SelectIdx(interactions, LAMBDA r : r.eventId # eventId)
            /\ last' = Response("deleteEvent", userId, eventId, 200)
            /\ UNCHANGED users
    /\ UNCHANGED <<pc, fb, feed, interactionOnDelete, lastIndex, result, listing>>

\* ------------------------------------------- POST /api/events/:id/rsvp
\* _count: { select: { rsvps: true } }
RsvpRowsOf(eventId) == SelectIdx(rsvps, LAMBDA r : r.eventId = eventId)

RsvpIndex(rows, userId, eventId) ==
    {i \in 1..Len(rows) : rows[i].userId = userId /\ rows[i].eventId = eventId}

\* a create where the upsert should be
UpsertRsvp_AlwaysCreate(rows, userId, eventId, status) ==
    Append(rows, [userId |-> userId, eventId |-> eventId,
                  status |-> IF status = Undefined THEN "going" ELSE status])

\* prisma.rSVP.upsert on the unique key (userId, eventId)
UpsertRsvp(rows, userId, eventId, status) ==
    IF RsvpIndex(rows, userId, eventId) # {}
    THEN [i \in 1..Len(rows) |->
            IF i \in RsvpIndex(rows, userId, eventId) /\ status # Undefined
            THEN [rows[i] EXCEPT !.status = status]
            ELSE rows[i]]
    ELSE Append(rows, [userId |-> userId, eventId |-> eventId,
                       status |-> IF status = Undefined THEN "going" ELSE status])

Rsvp(userId, eventId, status) ==
    /\ IF RsvpIndex(rsvps, userId, eventId) = {} /\ eventId \notin DOMAIN events
       THEN /\ last' = Response("rsvp", userId, eventId, ErrorStatus("P2003"))
            /\ UNCHANGED rsvps
       ELSE /\ rsvps' = UpsertRsvp(rsvps, userId, eventId, status)
            /\ last' = Response("rsvp", userId, eventId, 200)
    /\ UNCHANGED <<users, events, interactions, pc, fb, feed, interactionOnDelete, lastIndex, result, listing>>

\* ------------------------------------------- DELETE /api/events/:id/rsvp
\* prisma.rSVP.delete on the unique key; a missing row throws P2025
CancelRsvp(userId, eventId) ==
    /\ IF RsvpIndex(rsvps, userId, eventId) = {}
       THEN /\ last' = Response("cancelRsvp", userId, eventId, ErrorStatus("P2025"))
            /\ UNCHANGED rsvps
       ELSE /\ rsvps' = SelectIdx(rsvps,
                           LAMBDA r : ~(r.userId = userId /\ r.eventId = eventId))
            /\ last' = Response("cancelRsvp", userId, eventId, 200)
    /\ UNCHANGED <<users, events, interactions, pc, fb, feed, interactionOnDelete, lastIndex, result, listing>>

RsvpStatuses == {"going", "maybe", Undefined}

\* ------------------------------------------- POST /api/reco/feed
\* the weights object, environment defaults
WVibe == 2000

WDistance == 1500

WTime == 1200

WPopularity == 1000

WTrust == 500

WEmbed == 1000

\* the hard cap of Math.min(max, 50)
MaxResults == 50

Count(s, Keep(_)) == Len(SelectIdx(s, Keep))

Contains(s, x) == \E i \in 1..Len(s) : s[i] = x

\* a || b of two numbers
OrElse(a, b) == IF a # 0 /\ a # NoNumber THEN a ELSE b

\* the fallback taste vector: the mean of the non-empty embeddings.  The
\* model keeps their sum, vectors.length times the mean; cosineSimilarity
\* does not change under a positive factor.
FallbackVector(vectors) ==
    IF Len(vectors) = 0 THEN <<>>
    ELSE [d \in 1..Len(vectors[1]) |->
            SeqSum([k \in 1..Len(vectors) |-> vectors[k][d]])]

\* let userVector = ...: the stored taste vector, else the fallback over the
\* embeddings of the events of the user's going / cosign interactions
UserVector(userId) ==
    LET mine == SelectIdx(interactions,
                   LAMBDA r : r.userId = userId /\ r.action \in {"going", "cosign"})
        vectors == SelectIdx([k \in 1..Len(mine) |-> events[mine[k].eventId].embedding],
                       LAMBDA v : Len(v) > 0)
    IN IF Len(users[userId].tasteVector) = 0 /\ Len(mine) > 0 /\ Len(vectors) > 0
       THEN FallbackVector(vectors)
       ELSE users[userId].tasteVector

\* the radius as a penalty only: nothing is excluded
BeyondRadius_Never(distanceKm, radiusKm) == FALSE

\* distanceKm != null && distanceKm > radiusKm
BeyondRadius(distanceKm, radiusKm) == distanceKm # NoNumber /\ distanceKm > radiusKm

\* weights.distance * Math.max(0, 1 - distanceKm / Math.max(radiusKm, 1)),
\* for a distance and a radius measured in a unit of which a kilometre has
\* `one`
DistanceScoreAt(distance, radius, one) ==
    IF distance = NoNumber THEN 0
    ELSE RoundDiv(WDistance * Max2(0, Max2(radius, one) - distance), Max2(radius, one))

\* the same in whole kilometres
DistanceScore(distanceKm, radiusKm) == DistanceScoreAt(distanceKm, radiusKm, 1)

TimeScore(timeBucket) ==
    CASE timeBucket = "now"     -> WTime
      [] timeBucket = "tonight" -> (WTime * 75) \div 100
      [] timeBucket = "weekend" -> (WTime * 60) \div 100
      [] OTHER                  -> (WTime * 40) \div 100

buildReasons(vibeOverlap, distanceKm, radiusKm, timeBucket, hostTrust, popularity, cosine) ==
    (IF vibeOverlap >= 2 THEN <<"Matches multiple of your vibes">>
     ELSE IF vibeOverlap = 1 THEN <<"Matches one of your vibes">> ELSE <<>>)
    \o (IF distanceKm = NoNumber THEN <<>>
        ELSE IF 10 * distanceKm <= Max2(radiusKm * 4, 10) THEN <<"Very close to you">>
        ELSE IF distanceKm <= radiusKm THEN <<"Near your location">> ELSE <<>>)
    \o (CASE timeBucket = "now"     -> <<"Happening right now">>
          [] timeBucket = "tonight" -> <<"Hitting tonight">>
          [] timeBucket = "weekend" -> <<"Weekend highlight">>
          [] OTHER                  -> <<>>)
    \o (IF hostTrust >= 700 THEN <<"Trusted host">> ELSE <<>>)
    \o (IF popularity >= 2000 THEN <<"Trending with the community">> ELSE <<>>)
    \o (IF cosine >= 600 THEN <<"Feels like your taste">> ELSE <<>>)

\* the map callback without its radius test: one scored candidate
ScoreEvent(eventId, userId, lat, lng, radiusKm, when, vibes, now) ==
    LET event       == events[eventId]
        distanceKm  == calculateDistance(lat, lng, event.latitude, event.longitude)
        searchVibes == users[userId].vibePrefs \o vibes
        vibeOverlap == Count(event.vibe, LAMBDA tag : Contains(searchVibes, tag))
        timeBucket  == bucketByWhen(event.startTime, when, now)
        popularity  == event.popularityScore
                         + Len(RsvpRowsOf(eventId)) * 100
        trust       == OrElse(users[event.hostId].trustScore, OrElse(event.trustScore, 500))
        cosine      == cosineSimilarity(UserVector(userId), event.embedding)
        total       == vibeOverlap * WVibe
                         + DistanceScore(distanceKm, radiusKm)
                         + TimeScore(timeBucket)
                         + (popularity * WPopularity) \div 1000
                         + (trust * WTrust) \div 1000
                         + (cosine * WEmbed) \div 1000
    IN [id |-> eventId, distanceKm |-> distanceKm, score |-> total,
        reasons |-> buildReasons(vibeOverlap, distanceKm, radiusKm, timeBucket,
                                 trust, popularity, cosine)]

\* the comparator reversed: a.score - b.score
InsertByScore_Ascending(sorted, x) ==
    LET k == Cardinality({i \in 1..Len(sorted) :
                            \A j \in 1..i : sorted[j].score <= x.score})
    IN SubSeq(sorted, 1, k) \o <<x>> \o SubSeq(sorted, k + 1, Len(sorted))

\* .sort((a, b) => b.score - a.score): Array.prototype.sort is stable
InsertByScore(sorted, x) ==
    LET k == Cardinality({i \in 1..Len(sorted) :
                            \A j \in 1..i : sorted[j].score >= x.score})
    IN SubSeq(sorted, 1, k) \o <<x>> \o SubSeq(sorted, k + 1, Len(sorted))

SortByScore(s) ==
    LET RECURSIVE go(_, _, _)
        \* s[lo..hi] inserted into acc in index order; the first half is
        \* evaluated before the second so the nesting stays logarithmic
        go(acc, lo, hi) ==
            IF lo > hi THEN acc
            ELSE IF lo = hi THEN InsertByScore(acc, s[lo])
            ELSE LET mid == (lo + hi) \div 2
                     left == go(acc, lo, mid)
                 IN IF Len(left) >= 0 THEN go(left, mid + 1, hi) ELSE acc
    IN go(<<>>, 1, Len(s))

\* Array.prototype.slice(0, end)
Slice0(s, end) ==
    SubSeq(s, 1, IF end < 0 THEN Max2(Len(s) + end, 0) ELSE Min2(end, Len(s)))

\* .filter(Boolean).sort(...).slice(0, Math.min(max, 50)) and the response
RankAndCut(scored, max) ==
    LET out == Slice0(SortByScore(scored), Min2(max, MaxResults))
    IN [count |-> Len(out), events |-> out]

Orderings(S) ==
    {f \in [1..Cardinality(S) -> S] : \A i, j \in 1..Cardinality(S) : f[i] = f[j] => i = j}

\* the vector the request worked with written back to the user's row
UsersAfterFeed_SavesTasteVector(userId) ==
    IF userId \in DOMAIN users
    THEN [users EXCEPT ![userId].tasteVector = UserVector(userId)]
    ELSE users

\* the users table after the handler: userVector is a local of the request
\* and the handler issues no write (findUnique and findMany only)
UsersAfterFeed(userId) == users

\* The whole handler.  order is the order in which the store returns the
\* matching events (findMany without orderBy promises none); now is the clock.
Feed(userId, lat, lng, radiusIn, when, vibes, maxIn, now, order) ==
    /\ LET radiusKm == IF radiusIn = NoNumber THEN 10 ELSE radiusIn
           max      == IF maxIn = NoNumber THEN 20 ELSE maxIn
           req      == [userId |-> userId, lat |-> lat, lng |-> lng, radiusKm |-> radiusKm,
                        when |-> when, vibes |-> vibes, max |-> max, now |-> now]
       IN IF userId = Undefined \/ lat = NoNumber \/ lng = NoNumber
          THEN feed' = [status |-> 400, req |-> req]
          ELSE IF userId \notin DOMAIN users
          THEN feed' = [status |-> 404, req |-> req]
          ELSE
            LET filter   == buildTimeFilter(when, now)
                range    == IF filter = NoRange THEN [gte |-> now, lte |-> NoNumber] ELSE filter
                matching == {e \in DOMAIN events : InTimeRange(events[e].startTime, range)}
            IN /\ order \in Orderings(matching)
               /\ LET mapped == [i \in 1..Len(order) |->
                                   ScoreEvent(order[i], userId, lat, lng, radiusKm, when, vibes, now)]
                      scored == SelectIdx(mapped,
                                   LAMBDA c : ~BeyondRadius(c.distanceKm, radiusKm))
                      out    == RankAndCut(scored, max)
                  IN feed' = [status |-> 200, req |-> req, candidates |-> scored,
                              count |-> out.count, events |-> out.events]
    /\ users' = UsersAfterFeed(userId)
    /\ UNCHANGED <<events, interactions, rsvps, pc, fb, last, interactionOnDelete,
                   lastIndex, result, listing>>

\* The feedback path and the deletion that races with it.  RSVP rows are
\* read by no step of the feedback handler.
Next ==
    \/ \E p \in Calls : Feedback(p)
    \/ \E userId \in Users, eventId \in EventIds \cup {GhostEvent} : DeleteEvent(userId, eventId)

Spec == Init /\ [][Next]_vars

\* The RSVP path, with event deletion and one feedback call at a time.
NextRsvp ==
    \/ \E userId \in Users, eventId \in EventIds \cup {GhostEvent}, status \in RsvpStatuses :
          Rsvp(userId, eventId, status)
    \/ \E userId \in Users, eventId \in EventIds : CancelRsvp(userId, eventId)
    \/ \E userId \in Users, eventId \in EventIds \cup {GhostEvent} : DeleteEvent(userId, eventId)

SpecRsvp == Init /\ [][NextRsvp]_vars

\* The recommendation path: the requests that prepare the store (one
\* feedback call, RSVPs, deletions), then one recommendation request.  The
\* request writes nothing to the store, so a behaviour ends with it.
Sunday1730 == 17 * Hour + 1800

Saturday0900 == 6 * Day + 9 * Hour

FeedRequests ==
    {r \in [userId : Users \cup {GhostUser, Undefined}, lat : {0, 5, NoNumber},
            radiusKm : {NoNumber, 0, 5}, when : {Undefined, "now", "tonight", "weekend"},
            vibes : {<<>>, <<"Wild">>}, max : {NoNumber, 0 - 1, 1, 100},
            now : {Sunday1730, Saturday0900}] :
        /\ r.userId \notin Users \/ r.lat = NoNumber =>
              /\ r.radiusKm = NoNumber /\ r.when = Undefined /\ r.vibes = <<>>
              /\ r.max = NoNumber /\ r.now = Sunday1730
              /\ r.userId \in Users \/ r.lat = 0
        /\ r.max # NoNumber => r.when = Undefined /\ r.lat = 5 /\ r.radiusKm # 0
        /\ r.vibes # <<>> => r.when = Undefined /\ r.max = NoNumber /\ r.radiusKm = NoNumber}

EventOrders == UNION {Orderings(S) : S \in SUBSET EventIds}

NextFeed ==
    \/ feed = NoFeed /\ Feedback(1)
    \/ \E eventId \in EventIds : feed = NoFeed /\ Rsvp("u1", eventId, "going")
    \/ \E eventId \in EventIds : feed = NoFeed /\ CancelRsvp("u1", eventId)
    \/ \E eventId \in DOMAIN events :
          feed = NoFeed /\ DeleteEvent(events[eventId].hostId, eventId)
    \/ \E r \in FeedRequests, order \in EventOrders :
          /\ feed = NoFeed
          /\ Feed(r.userId, r.lat, 0, r.radiusKm, r.when, r.vibes, r.max, r.now, order)

SpecFeed == Init /\ [][NextFeed]_vars

\* A client that sends a recommendation request, keeps the response and
\* sends the same request again; the steps of a feedback call may come before
\* the first request and between the two.
RepeatRequests ==
    [userId : Users \cup {GhostUser}, lat : {0, 5}, radiusKm : {NoNumber},
     when : {Undefined, "tonight"}, vibes : {<<>>}, max : {NoNumber}, now : {Sunday1730}]

\* the client keeps the response; with it, the model keeps the store of
\* that moment
KeepResponse ==
    /\ feed # NoFeed /\ result = NoOutput
    /\ result' = [op |-> "feed", response |-> feed, users |-> users, events |-> events,
                  interactions |-> interactions, rsvps |-> rsvps]
    /\ feed' = NoFeed
    /\ UNCHANGED <<db, pc, fb, last, interactionOnDelete, lastIndex, listing>>

NextRepeat ==
    \/ feed = NoFeed /\ Feedback(1)
    \/ \E r \in RepeatRequests, order \in EventOrders :
          /\ feed = NoFeed /\ result = NoOutput
          /\ Feed(r.userId, r.lat, 0, r.radiusKm, r.when, r.vibes, r.max, r.now, order)
    \/ KeepResponse
    \/ \E r \in RepeatRequests, order \in EventOrders :
          /\ feed = NoFeed /\ result # NoOutput
          /\ r.userId = result.response.req.userId
          /\ r.lat = result.response.req.lat
          /\ r.when = result.response.req.when
          /\ Feed(r.userId, r.lat, 0, r.radiusKm, r.when, r.vibes, r.max, r.now, order)

SpecRepeat == Init /\ [][NextRepeat]_vars

\* The popularity ledger: feedback calls on e1 (running concurrently, the
\* same user more than once, with actions the table lists and actions it
\* does not), an edit of e1 by its host and RSVPs for it.
LedgerRequests ==
    [userId : {"u2"}, eventId : {"e1"},
     action : {"going", "hide", "share", "constructor"}, dwellMs : {NoNumber}]

LedgerBody ==
    [vibe |-> <<"Foodie">>, popularityScore |-> 9000, trustScore |-> 9000,
     hostId |-> "u2", id |-> "e2"]

NextLedger ==
    \/ \E p \in Calls, r \in LedgerRequests :
          FeedbackLookup(p, r.userId, r.eventId, r.action, r.dwellMs)
    \/ \E p \in Calls : FeedbackCreate(p)
    \/ \E p \in Calls : FeedbackPopularity(p)
    \/ \E p \in Calls : FeedbackTrust(p)
    \/ UpdateEvent("u1", "e1", LedgerBody)
    \/ Rsvp("u2", "e1", "going")

SpecLedger == Init /\ [][NextLedger]_vars

\* Recommendation requests at clock readings before and after the start of
\* the events of the store: e1 starts on Sunday at 18:00, e2 on Saturday at
\* 10:00.
Sunday1900 == 19 * Hour

Saturday1200 == 6 * Day + 12 * Hour

ClockRequests ==
    [userId : Users, lat : {0, 5}, radiusKm : {NoNumber, 5},
     when : {Undefined, "now", "tonight", "weekend", "month"}, vibes : {<<>>},
     max : {NoNumber}, now : {Sunday1730, Sunday1900, Saturday0900, Saturday1200}]

NextClock ==
    \E r \in ClockRequests, order \in EventOrders :
        /\ feed = NoFeed
        /\ Feed(r.userId, r.lat, 0, r.radiusKm, r.when, r.vibes, r.max, r.now, order)

SpecClock == Init /\ [][NextClock]_vars

\* The event path: creation, edits and deletion of events by both users.
CreateBodies ==
    {[title |-> t, description |-> <<>>, startTime |-> 20 * Hour, latitude |-> lat,
      longitude |-> 3, vibe |-> <<"Foodie", "Secret">>, eventType |-> Undefined,
      capacity |-> 250, ageRestriction |-> "19+"] :
        t \in {<<>>, <<"wine", "tasting">>}, lat \in {0, 4}}

\* the empty body, one body per kind of field, and a body with a field that
\* may not be updated
UpdateBodies ==
    {<<>>,
     [title |-> <<"quiet", "picnic">>, description |-> <<"open", "to", "everyone">>],
     [vibe |-> <<"Foodie">>],
     [startTime |-> 7 * Hour],
     [startTime |-> NoNumber],
     [capacity |-> 20, hostId |-> "u2"],
     [eventType |-> "food", ageRestriction |-> "19+"]}

UpdateRequests ==
    {r \in [eventId : EventIds \cup NewEventIds \cup {GhostEvent}, body : UpdateBodies] :
        /\ r.eventId = "e2" => DOMAIN r.body \subseteq {"vibe", "startTime"}
        /\ r.eventId \in NewEventIds \cup {GhostEvent} =>
              DOMAIN r.body \subseteq {"title", "description"}}

NextEvents ==
    \/ \E userId \in Users, body \in CreateBodies : CreateEvent(userId, body)
    \/ \E userId \in Users, r \in UpdateRequests : UpdateEvent(userId, r.eventId, r.body)
    \/ \E userId \in Users, eventId \in EventIds \cup NewEventIds \cup {GhostEvent} :
          DeleteEvent(userId, eventId)

SpecEvents == Init /\ [][NextEvents]_vars

\* The two radius-bounded queries over a store in which an event may lack
\* its coordinates: one listing and one recommendation request, in either
\* order.  Neither writes to the store.
Unlocated(evs, eventId) ==
    [evs EXCEPT ![eventId].latitude = NoNumber, ![eventId].longitude = NoNumber]

InitGeo ==
    /\ users = UserSeed
    /\ events \in {EventSeed, Unlocated(EventSeed, "e2"), Unlocated(EventSeed, "e1")}
    /\ interactions = <<>>
    /\ rsvps = <<>>
    /\ pc = [p \in Calls |-> "idle"]
    /\ fb = [p \in Calls |-> NoCall]
    /\ last = NoResponse
    /\ feed = NoFeed
    /\ interactionOnDelete \in {"Cascade", "Restrict"}
    /\ lastIndex = [k \in PatternIds |-> 0]
    /\ result = NoOutput
    /\ listing = NoListing

ListQueries ==
    {q \in [lat : {NoNumber, 0, 5}, lng : {NoNumber, 0}, radiusKm : {NoNumber, 5},
            radius : {NoNumber, 0, 3}, when : {Undefined, "weekend"},
            startDate : {NoNumber}, endDate : {NoNumber, 2 * Day},
            vibeTags : {{}, {"Zen", "Loud"}}, search : {Undefined, "yoga"}] :
        /\ q.lng = NoNumber => q.lat = 5
        /\ q.radius # NoNumber => q.radiusKm = NoNumber /\ q.when = Undefined
        /\ q.endDate # NoNumber => q.when = Undefined /\ q.vibeTags = {} /\ q.search = Undefined
        /\ q.vibeTags # {} => q.search = Undefined /\ q.when = Undefined
        /\ q.search # Undefined => q.when = Undefined}

\* 90 degrees of latitude, in kilometres of arc
LatitudeLimit == 10008

\* with the well-formed requests, one whose latitude lies beyond the pole
\* and one whose when is no supported value
GeoFeedRequests ==
    {r \in [userId : {"u1"}, lat : {0, 5, LatitudeLimit + 100}, radiusKm : {NoNumber, 5},
            when : {Undefined, "weekend", "later"}, vibes : {<<>>}, max : {NoNumber},
            now : {Sunday1730}] :
        /\ r.lat > LatitudeLimit => r.when = Undefined
        /\ r.when = "later" => r.lat = 0}

NextGeo ==
    \/ \E q \in ListQueries, order \in EventOrders :
          /\ listing = NoListing
          /\ ListEvents(q, Sunday1730, order)
    \/ \E r \in GeoFeedRequests, order \in EventOrders :
          /\ feed = NoFeed
          /\ Feed(r.userId, r.lat, 0, r.radiusKm, r.when, r.vibes, r.max, r.now, order)

SpecGeo == InitGeo /\ [][NextGeo]_vars

\* bucketByWhen on its own: one call per step, over start times around
\* every boundary of the windows and over three clock readings.
Wednesday1000 == 3 * Day + 10 * Hour

BucketClocks == {Sunday1730, Wednesday1000, Saturday0900}

\* start times relative to the clock and to the start of its day
BucketDates(now) ==
    {now + d : d \in {0 - Day, 0 - 1, 0, 1, 2 * Hour - 1, 2 * Hour, 2 * Hour + 1}}
    \cup {StartOfDay(now) + d :
             d \in {17 * Hour - 1, 17 * Hour, 21 * Hour, Day - 1, Day, Day + Hour}}
    \cup {3 * Day + 20 * Hour, 6 * Day - 1, 6 * Day, 6 * Day + 12 * Hour,
          7 * Day + 12 * Hour, 8 * Day - 1, 8 * Day, 9 * Day}

BucketCall(eventDate, when, now) ==
    /\ result' = [op |-> "bucketByWhen", eventDate |-> eventDate, when |-> when,
                  now |-> now, value |-> bucketByWhen(eventDate, when, now)]
    /\ UNCHANGED <<db, pc, fb, last, feed, interactionOnDelete, lastIndex, listing>>

NextBucket ==
    \E now \in BucketClocks, when \in {Undefined, "now", "tonight", "weekend", "month"} :
        \E eventDate \in BucketDates(now) : BucketCall(eventDate, when, now)

SpecBucket == Init /\ [][NextBucket]_vars

\* The time filter and the bucket of the recommendation handler together:
\* one candidate per step, whose start time the range of findMany admits,
\* and the bucket the scoring then gives it.
WindowDates(now) == BucketDates(now) \cup {h * Hour : h \in 0..(9 * 24)}

WindowCall(eventDate, when, now) ==
    /\ result = NoOutput
    /\ LET filter == buildTimeFilter(when, now)
           range  == IF filter = NoRange THEN [gte |-> now, lte |-> NoNumber] ELSE filter
       IN InTimeRange(eventDate, range)
    /\ result' = [op |-> "timeBucket", eventDate |-> eventDate, when |-> when,
                  now |-> now, value |-> bucketByWhen(eventDate, when, now)]
    /\ UNCHANGED <<db, pc, fb, last, feed, interactionOnDelete, lastIndex, listing>>

NextWindow ==
    \E now \in BucketClocks, when \in {Undefined, "now", "tonight", "weekend", "month"} :
        \E eventDate \in WindowDates(now) : WindowCall(eventDate, when, now)

SpecWindow == Init /\ [][NextWindow]_vars

\* computeUserTasteVector on its own: one call, over interaction lists of up
\* to MaxInteractions entries.  The function keeps nothing between calls.
MaxInteractions == 3

EnergyVector == <<1, 0, 0, 0, 0, 0, 0, 0>>

MixedVector == <<3, 0, 0, 0, 0, 4, 0, 0>>

\* interactions with and without a valid embedding, of every action and of
\* one the weights do not know
TasteInteractions ==
    {i \in [action : FeedbackActions \cup {"share"},
            embedding : {EnergyVector, MixedVector, <<>>, <<1, 0, 0>>},
            age : {NoNumber, 0, 1}, dwellMs : {NoNumber, 15000}] :
        /\ i.dwellMs # NoNumber => i.action = "view" /\ i.embedding = EnergyVector /\ i.age = 0
        /\ i.age = 0 => i.embedding = EnergyVector /\ i.action \in {"going", "view"}
        /\ i.age = 1 => i.embedding = EnergyVector /\ i.action = "hide"
        /\ i.embedding = MixedVector => i.action = "cosign"
        /\ i.embedding = <<1, 0, 0>> => i.action = "going"
        /\ i.action = "share" => i.embedding = EnergyVector
        /\ i.action = "view" => i.embedding = EnergyVector}

InteractionLists ==
    UNION {[1..n -> TasteInteractions] : n \in 0..MaxInteractions}

TasteOptions ==
    {DefaultOptions,
     [DefaultOptions EXCEPT !.recencyDecay = FALSE],
     [DefaultOptions EXCEPT !.actionWeights = [going |-> 0, cosign |-> 0, view |-> 0, hide |-> 0]]}

TasteCall(history, options) ==
    /\ result = NoOutput
    /\ result' = [op |-> "computeUserTasteVector", interactions |-> history,
                  options |-> options,
                  value |-> computeUserTasteVector(history, options)]
    /\ UNCHANGED <<db, pc, fb, last, feed, interactionOnDelete, lastIndex, listing>>

NextTaste ==
    \E history \in InteractionLists, options \in TasteOptions :
        TasteCall(history, options)

SpecTaste == Init /\ [][NextTaste]_vars

\* generateEventEmbedding on its own: up to MaxEmbedCalls calls, one after
\* the other, each on any of the events below; every call and what it
\* returned is kept.
MaxEmbedCalls == 3

\* an event no signal matches: no tag, type other, no keyword, a start at
\* noon, a middling capacity, no age restriction
PlainEvent ==
    [title |-> <<"board", "games">>, description |-> <<"bring", "a", "friend">>,
     vibe |-> <<>>, eventType |-> "other", startTime |-> 3 * Day + 12 * Hour,
     capacity |-> 80, ageRestriction |-> Undefined]

EmbedEvents ==
    {PlainEvent,
     [PlainEvent EXCEPT !.vibe = <<"Wild", "Secret">>, !.eventType = "party",
                        !.startTime = 6 * Day + 22 * Hour, !.ageRestriction = "19+"],
     [PlainEvent EXCEPT !.title = <<"live", "music">>, !.description = <<"live", "band">>],
     [PlainEvent EXCEPT !.title = <<"sunrise", "yoga">>, !.vibe = <<"Zen">>,
                        !.eventType = "wellness", !.startTime = 7 * Hour, !.capacity = 20],
     [PlainEvent EXCEPT !.vibe = <<"Secret">>, !.eventType = "karaoke"],
     [PlainEvent EXCEPT !.title = <<"intimate", "dinner">>, !.capacity = 250,
                        !.ageRestriction = "All ages"],
     [PlainEvent EXCEPT !.description = <<"wine", "and", "wine">>, !.capacity = NoNumber],
     [PlainEvent EXCEPT !.vibe = <<"Chill", "Loud">>, !.startTime = Hour]}

EmbedCall(event) ==
    /\ Len(IF result = NoOutput THEN <<>> ELSE result.calls) < MaxEmbedCalls
    /\ result' = [op |-> "generateEventEmbedding",
                  calls |-> Append(IF result = NoOutput THEN <<>> ELSE result.calls,
                                   [event |-> event, after |-> event,
                                    value |-> generateEventEmbedding(event)])]
    /\ lastIndex' = PatternsAfter(event)
    /\ UNCHANGED <<db, pc, fb, last, feed, interactionOnDelete, listing>>

NextEmbed == \E event \in EmbedEvents : EmbedCall(event)

SpecEmbed == Init /\ [][NextEmbed]_vars

\* ------------------------------------------- validateRecommendationInput
\* A string is the sequence of its pieces: words, and " " for white space.
\* A raw request value is [kind, chars]: kind "undefined" (the key is
\* absent), "null", or "string" with its pieces.
RECURSIVE TrimStart(_)
TrimStart(chars) ==
    IF chars # <<>> /\ Head(chars) = " " THEN TrimStart(Tail(chars)) ELSE chars

RECURSIVE TrimEnd(_)
TrimEnd(chars) ==
    IF chars # <<>> /\ chars[Len(chars)] = " "
    THEN TrimEnd(SubSeq(chars, 1, Len(chars) - 1))
    ELSE chars

\* String.prototype.trim
Trim(chars) == TrimEnd(TrimStart(chars))

\* const WHEN_VALUES
WHEN_VALUES == {"now", "tonight", "weekend", "month"}

Invalid == [ok |-> FALSE]

Valid(value) == [ok |-> TRUE, value |-> value]

\* the enum dropped: any string left after trimming is let through
whenSchema_NoEnum(raw) ==
    IF raw.kind = "undefined" THEN Valid(Undefined)
    ELSE IF raw.kind = "null" \/ raw.chars = <<>> THEN Invalid
    ELSE IF Len(Trim(raw.chars)) = 1 THEN Valid(Trim(raw.chars)[1])
    ELSE Invalid

\* whenSchema: optional() lets an absent key through; anything else is
\* preprocessed (null and '' to undefined, the rest to its trimmed string)
\* and must then be one of WHEN_VALUES
whenSchema(raw) ==
    IF raw.kind = "undefined" THEN Valid(Undefined)
    ELSE IF raw.kind = "null" \/ raw.chars = <<>> THEN Invalid
    ELSE IF Len(Trim(raw.chars)) = 1 /\ Trim(raw.chars)[1] \in WHEN_VALUES
         THEN Valid(Trim(raw.chars)[1])
    ELSE Invalid

\* the strings z.string().uuid() lets through, among the user ids of requests
Uuids == {"123e4567-e89b-12d3-a456-426614174000"}

\* latitudeSchema, with the latitude in kilometres of arc
latitudeSchema(value) ==
    IF value = NoNumber \/ Abs(value) > LatitudeLimit THEN Invalid ELSE Valid(value)

\* radiusSchema: positive, at most 200, 10 when absent
radiusSchema(value) ==
    IF value = NoNumber THEN Valid(10)
    ELSE IF value > 0 /\ value <= 200 THEN Valid(value)
    ELSE Invalid

\* maxResultsSchema: a positive integer, at most 50, 20 when absent
maxResultsSchema(value) ==
    IF value = NoNumber THEN Valid(20)
    ELSE IF value > 0 /\ value <= 50 THEN Valid(value)
    ELSE Invalid

\* validateRecommendationInput(input): recommendationSchema.parse, strict
\* (a key the schema does not know is refused), then the vibes normalised;
\* a ZodError thrown is the result Invalid
validateRecommendationInput(input) ==
    IF \/ input.extra
       \/ input.userId \notin Uuids
       \/ ~latitudeSchema(input.lat).ok
       \/ ~radiusSchema(input.radiusKm).ok
       \/ ~whenSchema(input.when).ok
       \/ ~maxResultsSchema(input.max).ok
    THEN Invalid
    ELSE Valid([userId |-> input.userId, lat |-> input.lat,
                radiusKm |-> radiusSchema(input.radiusKm).value,
                when |-> whenSchema(input.when).value,
                vibes |-> input.vibes,
                max |-> maxResultsSchema(input.max).value])

\* validateRecommendationInput on its own: one call, over requests around
\* the one of the test suite.
Str(chars) == [kind |-> "string", chars |-> chars]

WhenInputs ==
    {[kind |-> "undefined", chars |-> <<>>], [kind |-> "null", chars |-> <<>>],
     Str(<<>>), Str(<<" ">>), Str(<<"later">>), Str(<<"Tonight">>),
     Str(<<"to", " ", "night">>), Str(<<" ", "tonight", " ">>), Str(<<"weekend", " ">>)}
    \cup {Str(<<w>>) : w \in WHEN_VALUES}

RecommendationInputs ==
    [userId : Uuids \cup {"u1"}, lat : {0, 5062, LatitudeLimit + 100, NoNumber},
     radiusKm : {NoNumber, 25, 0, 201}, when : WhenInputs,
     vibes : {<<>>, <<"dance", "music">>}, max : {NoNumber, 10, 51},
     extra : BOOLEAN]

ValidateCall(input) ==
    /\ result = NoOutput
    /\ result' = [op |-> "validateRecommendationInput", input |-> input,
                  value |-> validateRecommendationInput(input)]
    /\ UNCHANGED <<db, pc, fb, last, feed, interactionOnDelete, lastIndex, listing>>

NextValidate == \E input \in RecommendationInputs : ValidateCall(input)

SpecValidate == Init /\ [][NextValidate]_vars

\* The distance component on its own, in metres: one candidate per step, at
\* a distance within the radius (the handler has dropped the others).
Metre == 1

Km == 1000 * Metre

Radii == {0, 250, 500, 750, Km, 2 * Km, 5 * Km, 10 * Km}

Distances(radius) == {d \in {250 * k : k \in 0..40} : d <= radius}

DistanceCall(distance, radius) ==
    /\ result = NoOutput
    /\ ~BeyondRadius(distance, radius)
    /\ result' = [op |-> "distanceScore", distance |-> distance, radius |-> radius,
                  value |-> DistanceScoreAt(distance, radius, Km)]
    /\ UNCHANGED <<db, pc, fb, last, feed, interactionOnDelete, lastIndex, listing>>

NextDistance ==
    \E radius \in Radii : \E distance \in Distances(radius) : DistanceCall(distance, radius)

SpecDistance == Init /\ [][NextDistance]_vars

\* The two cosineSimilarity functions on their own: one call of each, in both
\* argument orders, over vectors of up to MaxDim components.
MaxDim == 3

Components == {0 - 1, 0, 1}

CosineVectors == UNION {[1..n -> Components] : n \in 0..MaxDim}

CosineCall(a, b) ==
    /\ result = NoOutput
    /\ result' = [op |-> "cosineSimilarity", a |-> a, b |-> b,
                  engine |-> cosineSimilarity(a, b),
                  engineSwapped |-> cosineSimilarity(b, a),
                  embedder |-> EmbeddingsCosineSimilarity(a, b),
                  embedderSwapped |-> EmbeddingsCosineSimilarity(b, a)]
    /\ UNCHANGED <<db, pc, fb, last, feed, interactionOnDelete, lastIndex, listing>>

NextCosine == \E a \in CosineVectors, b \in CosineVectors : CosineCall(a, b)

SpecCosine == Init /\ [][NextCosine]_vars

\* The ranking and truncation of the handler on its own, over candidate
\* lists longer than the cap.
MaxCandidates == 52

SyntheticScored(n) ==
    [i \in 1..n |-> [id |-> i, distanceKm |-> i % 3, score |-> ((i * 7) % 5) * 100,
                     reasons |-> <<>>]]

RankRequest(n, maxIn) ==
    /\ feed = NoFeed
    /\ LET max == IF maxIn = NoNumber THEN 20 ELSE maxIn
           out == RankAndCut(SyntheticScored(n), max)
       IN feed' = [status |-> 200, req |-> [max |-> max],
                   candidates |-> SyntheticScored(n),
                   count |-> out.count, events |-> out.events]
    /\ UNCHANGED <<db, pc, fb, last, interactionOnDelete, lastIndex, result, listing>>

NextRank ==
    \E n \in 0..MaxCandidates, maxIn \in {NoNumber, 0 - 1, 0, 1, 50, 51, 100} :
        RankRequest(n, maxIn)

SpecRank == Init /\ [][NextRank]_vars

\* =================================================================
\* Properties of the feedback path (Spec)
\* =================================================================
\* the popularity change of each action, as documented
DocumentedDelta(action) ==
    CASE action = "view"   -> 100
      [] action = "cosign" -> 600
      [] action = "going"  -> 1000
      [] action = "hide"   -> 0 - 800

\* the host-trust change of each action, as documented
DocumentedTrust(action) ==
    CASE action = "going"  -> 50
      [] action = "cosign" -> 30
      [] OTHER             -> 0

Popularity(evs) == [e \in DOMAIN evs |-> evs[e].popularityScore]

Trust(us) == [u \in DOMAIN us |-> us[u].trustScore]

\* call p takes a step
Steps(p) == pc'[p] # pc[p]

\* call p has answered 201
Succeeded(p) == pc[p] = "done" /\ fb[p].status = 201

SumOverCalls(Term(_)) ==
    LET RECURSIVE go(_)
        go(p) == IF p = 0 THEN 0 ELSE Term(p) + go(p - 1)
    IN go(MaxCalls)

\* C1: the popularity step of a feedback call adds exactly the documented
\* delta of the call's action to the call's event and leaves the popularity of
\* every other event as it was; no other step of a call changes a popularity.
C1_ExactPopularityDelta ==
    [][\A p \in Calls : Steps(p) =>
          IF pc[p] = "popularity" /\ fb'[p].err = "none"
          THEN /\ DOMAIN events' = DOMAIN events
               /\ \A e \in DOMAIN events :
                     events'[e].popularityScore =
                        events[e].popularityScore
                          + (IF e = fb[p].eventId THEN DocumentedDelta(fb[p].action) ELSE 0)
          ELSE Popularity(events') = Popularity(events)]_vars

\* a hide call has answered 201 and its event now stands at -0.8
C1_Witness ==
    \E p \in Calls :
        /\ Succeeded(p) /\ fb[p].action = "hide"
        /\ fb[p].eventId \in DOMAIN events
        /\ events[fb[p].eventId].popularityScore = 0 - 800
        /\ \E e \in DOMAIN events : e # fb[p].eventId /\ events[e].popularityScore = 0

\* C2: no step lowers a trustScore; the trust step of a going / cosign call
\* adds 0.05 / 0.03 to the host of the call's event and to nobody else; a
\* view or hide call has no trust step, and no other step changes a trust.
C2_TrustOnlyGrows ==
    [][/\ \A u \in DOMAIN users : users'[u].trustScore >= users[u].trustScore
       /\ \A p \in Calls : Steps(p) =>
             IF pc[p] = "trust"
             THEN /\ fb[p].action \in {"going", "cosign"}
                  /\ \A u \in DOMAIN users :
                        users'[u].trustScore =
                           users[u].trustScore
                             + (IF u = EventSeed[fb[p].eventId].hostId
                                THEN DocumentedTrust(fb[p].action) ELSE 0)
             ELSE Trust(users') = Trust(users)
       /\ \A p \in Calls : pc'[p] = "trust" => fb'[p].action \in {"going", "cosign"}]_vars

\* a going call and a hide call on the event of u1 have both answered 201
\* and the trust of u1 went from 0 to 0.05
C2_Witness ==
    /\ \E p \in Calls : Succeeded(p) /\ fb[p].action = "going" /\ fb[p].eventId = "e1"
    /\ \E p \in Calls : Succeeded(p) /\ fb[p].action = "hide" /\ fb[p].eventId = "e1"
    /\ users["u1"].trustScore = 50

\* C3: a feedback request whose user or event is not in the store when it is
\* looked up answers 404 at once and the store is left as it was.
C3_NotFoundLeavesStore ==
    [][\A p \in Calls :
          (/\ pc[p] = "idle" /\ Steps(p)
           /\ fb'[p].action # Undefined
           /\ fb'[p].userId \notin DOMAIN users \/ fb'[p].eventId \notin DOMAIN events)
          => /\ pc'[p] = "done"
             /\ fb'[p].status = 404
             /\ db' = db]_vars

\* a call for an event that was deleted before it arrived has answered 404
C3_Witness ==
    \E p \in Calls :
        /\ pc[p] = "done" /\ fb[p].status = 404
        /\ fb[p].eventId \in EventIds /\ fb[p].eventId \notin DOMAIN events
        /\ \A i \in 1..Len(interactions) : interactions[i].id # p

\* C4: when no feedback call is in flight, every event stands at the sum of
\* the documented deltas of the calls that answered 201 for it, and every user
\* at the initial trust plus the documented increments of the 201 calls on the
\* events that user hosts: no interleaving loses an update.
C4_NoLostUpdate ==
    (\A p \in Calls : pc[p] \in {"idle", "done"}) =>
        /\ \A e \in DOMAIN events :
              events[e].popularityScore =
                 SumOverCalls(LAMBDA p : IF Succeeded(p) /\ fb[p].eventId = e
                                         THEN DocumentedDelta(fb[p].action) ELSE 0)
        /\ \A u \in DOMAIN users :
              users[u].trustScore =
                 UserSeed[u].trustScore
                   + SumOverCalls(LAMBDA p :
                        IF Succeeded(p) /\ EventSeed[fb[p].eventId].hostId = u
                        THEN DocumentedTrust(fb[p].action) ELSE 0)

\* two calls on the same event overlapped (the call that arrived second
\* logged its interaction first) and both have answered 201
C4_Witness ==
    /\ \A p \in Calls : pc[p] \in {"idle", "done"}
    /\ Succeeded(1) /\ Succeeded(2)
    /\ fb[1].eventId = "e1" /\ fb[2].eventId = "e1"
    /\ fb[1].action = "going" /\ fb[2].action = "cosign"
    /\ Len(interactions) >= 2 /\ interactions[1].id = 2 /\ interactions[2].id = 1
    /\ events["e1"].popularityScore = 1600
    /\ users["u1"].trustScore = 80

\* C5: a feedback call that passed the existence check and then found its
\* event deleted answers 404.
C5_DeletedMidFlightIsNotFound ==
    \A p \in Calls :
        (pc[p] = "done" /\ fb[p].err # "none") => fb[p].status = 404

Position(s, id) == CHOOSE i \in 1..Len(s) : s[i].id = id

Ids(s) == {s[i].id : i \in 1..Len(s)}

\* C7: every event of a recommendation response lies within radiusKm of the
\* request location: an event beyond the radius is left out, whatever it
\* would have scored.
C7_WithinRadius ==
    feed.status = 200 =>
        \A i \in 1..Len(feed.events) :
            /\ feed.events[i].id \in DOMAIN events
            /\ Abs(events[feed.events[i].id].latitude - feed.req.lat) <= feed.req.radiusKm
            /\ feed.events[i].distanceKm <= feed.req.radiusKm

\* an upcoming event 8 km away is missing from a response with radius 5
\* that returned the event 2 km away
C7_Witness ==
    /\ feed.status = 200 /\ feed.req.lat = 0 /\ feed.req.radiusKm = 5
    /\ feed.req.when = Undefined /\ feed.req.now = Sunday1730
    /\ DOMAIN events = {"e1", "e2"}
    /\ Ids(feed.events) = {"e1"}
    /\ feed.events[1].distanceKm = 2

\* C8: a ranked response holds at most 50 events, at most max events when
\* max is not negative, and its count is the number of its events.
C8_AtMostFifty ==
    feed.status = 200 =>
        /\ feed.count = Len(feed.events)
        /\ Len(feed.events) <= 50
        /\ feed.req.max >= 0 => Len(feed.events) <= feed.req.max

\* C9: the events of a response come in non-increasing order of score, events
\* of equal score in the order in which retrieval produced them, and no
\* candidate left out by the truncation scores higher than one returned.
C9_RankedStablePrefix ==
    feed.status = 200 =>
        /\ Ids(feed.events) \subseteq Ids(feed.candidates)
        /\ \A i, j \in 1..Len(feed.events) : i < j =>
              /\ feed.events[i].score >= feed.events[j].score
              /\ feed.events[i].score = feed.events[j].score =>
                    Position(feed.candidates, feed.events[i].id)
                       < Position(feed.candidates, feed.events[j].id)
        /\ \A k \in 1..Len(feed.candidates) :
              feed.candidates[k].id \notin Ids(feed.events) =>
                 \A i \in 1..Len(feed.events) :
                    feed.candidates[k].score <= feed.events[i].score

\* retrieval produced the lower-scored candidate first, max = 1 kept the
\* higher-scored one
C9_Witness ==
    /\ feed.status = 200 /\ feed.req.max = 1
    /\ Len(feed.candidates) = 2 /\ Len(feed.events) = 1
    /\ feed.candidates[1].score < feed.candidates[2].score
    /\ feed.events[1] = feed.candidates[2]

\* the score of a candidate without its embedding component: vibe overlap
\* (a tag outside the search vibes counts for nothing), distance, time,
\* popularity and trust
OtherComponents(eventId, req) ==
    LET event       == events[eventId]
        searchVibes == users[req.userId].vibePrefs \o req.vibes
        known       == {k \in 1..Len(event.vibe) : Contains(searchVibes, event.vibe[k])}
        distanceKm  == calculateDistance(req.lat, req.lng, event.latitude, event.longitude)
        trust       == OrElse(users[event.hostId].trustScore, OrElse(event.trustScore, 500))
    IN Cardinality(known) * WVibe
         + DistanceScore(distanceKm, req.radiusKm)
         + TimeScore(bucketByWhen(event.startTime, req.when, req.now))
         + ((event.popularityScore + Len(RsvpRowsOf(eventId)) * 100) * WPopularity) \div 1000
         + (trust * WTrust) \div 1000

\* the candidate's similarity signal is degraded: the event has no stored
\* embedding vector, or the user has no taste vector, stored or derived
Degraded(eventId, userId) ==
    Len(events[eventId].embedding) = 0 \/ Len(UserVector(userId)) = 0

\* C15: a recommendation request by an existing user with a location answers
\* 200 whatever signals are missing, and a candidate whose embedding or whose
\* user's taste vector is missing scores exactly its other components: the
\* embedding component is 0, and so is the share of a vibe tag nobody asked for.
C15_DegradedSignalsScoreZero ==
    /\ (feed # NoFeed /\ feed.req.userId \in DOMAIN users /\ feed.req.lat # NoNumber)
          => feed.status = 200
    /\ feed.status = 200 =>
          \A i \in 1..Len(feed.candidates) :
              Degraded(feed.candidates[i].id, feed.req.userId) =>
                 feed.candidates[i].score = OtherComponents(feed.candidates[i].id, feed.req)

\* u2, whose taste vector is derived from its going on e1, was served e1
\* with a similarity share and e2, which has no embedding and carries a tag
\* outside the search vibes, without one
C15_Witness ==
    /\ feed.status = 200 /\ feed.req.userId = "u2"
    /\ Len(users["u2"].tasteVector) = 0 /\ Len(UserVector("u2")) = 8
    /\ Ids(feed.events) = {"e1", "e2"}
    /\ \A i \in 1..Len(feed.events) :
          IF feed.events[i].id = "e1"
          THEN feed.events[i].score = OtherComponents("e1", feed.req) + WEmbed
          ELSE /\ Degraded("e2", "u2")
               /\ feed.events[i].score = OtherComponents("e2", feed.req)

\* the score of a candidate were its trust component computed from `trust`
ScoreGivenTrust(eventId, req, trust) ==
    LET event       == events[eventId]
        searchVibes == users[req.userId].vibePrefs \o req.vibes
        known       == {k \in 1..Len(event.vibe) : Contains(searchVibes, event.vibe[k])}
        distanceKm  == calculateDistance(req.lat, req.lng, event.latitude, event.longitude)
        cosine      == cosineSimilarity(UserVector(req.userId), event.embedding)
    IN Cardinality(known) * WVibe
         + DistanceScore(distanceKm, req.radiusKm)
         + TimeScore(bucketByWhen(event.startTime, req.when, req.now))
         + ((event.popularityScore + Len(RsvpRowsOf(eventId)) * 100) * WPopularity) \div 1000
         + (trust * WTrust) \div 1000
         + (cosine * WEmbed) \div 1000

\* C24: the trust component of a candidate is the host's trustScore times
\* weight_trust whenever the host's trust is available, a trust of 0
\* included; the event's own trust field counts only when it is not.
C24_HostTrustFirst ==
    feed.status = 200 =>
        \A i \in 1..Len(feed.candidates) :
            LET host == events[feed.candidates[i].id].hostId
            IN (host \in DOMAIN users /\ users[host].trustScore # NoNumber) =>
                  feed.candidates[i].score =
                     ScoreGivenTrust(feed.candidates[i].id, feed.req, users[host].trustScore)

\* the candidates of a response with their scores
Scores(response) ==
    IF response.status = 200
    THEN {<<response.candidates[i].id, response.candidates[i].score>> :
             i \in 1..Len(response.candidates)}
    ELSE {}

\* C25: a recommendation request leaves every persisted user (the stored
\* taste vector included), event, embedding, interaction and RSVP as it
\* was, whatever its outcome; and a request repeated on an unchanged store
\* is answered with the same status and the same score for every candidate.
C25_FeedReadOnly ==
    [][(feed' # feed /\ feed' # NoFeed) =>
          /\ db' = db
          /\ (/\ result.op = "feed"
              /\ result.users = users /\ result.events = events
              /\ result.interactions = interactions /\ result.rsvps = rsvps)
                => /\ feed'.status = result.response.status
                   /\ Scores(feed') = Scores(result.response)]_vars

\* u2, who has no stored taste vector, was served twice from the vector
\* derived from its going on e1; the stored vector is still empty
C25_Witness ==
    /\ result.op = "feed" /\ result.response.status = 200
    /\ feed.status = 200 /\ feed.req.userId = "u2"
    /\ Len(UserVector("u2")) = 8
    /\ Len(users["u2"].tasteVector) = 0
    /\ result.users = users /\ result.events = events
    /\ result.interactions = interactions
    /\ Len(feed.candidates) > 0
    /\ Scores(feed) = Scores(result.response)

\* =================================================================
\* Properties of the popularity ledger (SpecLedger)

\* no feedback call is between its first and its last step
Quiescent == \A p \in Calls : pc[p] \in {"idle", "done"}

\* the documented delta of an action, 0 for an action the table does not list
LedgerDelta(action) ==
    IF action \in FeedbackActions THEN DocumentedDelta(action) ELSE 0

\* the sum of the deltas of the interaction rows of an event
LoggedDelta(eventId) ==
    SeqSum([k \in 1..Len(interactions) |->
               IF interactions[k].eventId = eventId
               THEN LedgerDelta(interactions[k].action) ELSE 0])

\* C27: with no feedback call in flight, the popularityScore of every event
\* is its initial value plus the deltas of all interaction rows logged for
\* it, whatever feedback calls, edits and RSVPs came before; a user's
\* repeated feedback counts every time.
C27_PopularityIsLedgerSum ==
    Quiescent =>
        \A e \in DOMAIN events :
            events[e].popularityScore = EventSeed[e].popularityScore + LoggedDelta(e)

\* u2 went twice, the host edited the event and someone sent an RSVP
C27_Witness ==
    /\ Quiescent
    /\ Len(interactions) = 2
    /\ \A k \in 1..2 : interactions[k].action = "going" /\ interactions[k].userId = "u2"
    /\ events["e1"].vibe = <<"Foodie">>
    /\ Len(rsvps) = 1
    /\ events["e1"].popularityScore = 2000

\* C30: no step of a feedback call whose action is none of view, cosign,
\* going, hide changes the popularityScore of an event or the trustScore of
\* a user.
C30_UnlistedActionChangesNoScore ==
    [][\A p \in Calls :
          (Steps(p) /\ fb'[p].action \notin FeedbackActions \cup {Undefined}) =>
              /\ Popularity(events') = Popularity(events)
              /\ Trust(users') = Trust(users)]_vars

\* a share call has answered 201 and a constructor call has been refused
\* at its popularity update, both after logging their interaction; the
\* scores stand where they stood
C30_Witness ==
    /\ \E p \in Calls : Succeeded(p) /\ fb[p].action = "share"
    /\ \E p \in Calls : pc[p] = "done" /\ fb[p].action = "constructor" /\ fb[p].status = 500
    /\ Len(interactions) = 2
    /\ Popularity(events) = Popularity(EventSeed)
    /\ Trust(users) = Trust(UserSeed)

\* C28: an edit changes the updatable fields its body defines and nothing
\* else: popularityScore, trustScore, hostId and the id of the event stay as
\* they were although the body supplies them, and so does every field the
\* body leaves out; no other event changes.
C28_EditOnlyWhitelisted ==
    [][(last' # last /\ last'.op = "updateEvent") =>
          /\ DOMAIN events' = DOMAIN events
          /\ \A e \in DOMAIN events :
                events'[e] = IF e = last'.eventId /\ last'.status = 200
                             THEN [events[e] EXCEPT !.vibe = LedgerBody.vibe]
                             ELSE events[e]
          /\ users' = users]_vars

\* the host's edit, whose body asks for a popularity of 9 and for another
\* owner, went through on an event that stood at popularity 1: the tags
\* are the new ones, popularity and owner the old ones
C28_Witness ==
    /\ last.op = "updateEvent" /\ last.status = 200
    /\ events["e1"].vibe = LedgerBody.vibe
    /\ events["e1"].popularityScore = 1000
    /\ events["e1"].popularityScore # LedgerBody.popularityScore
    /\ events["e1"].hostId = "u1"
    /\ events["e1"].title = EventSeed["e1"].title

\* =================================================================
\* Properties of the recommendation path over the clock (SpecClock)

\* C29: no event of a recommendation response has started before the
\* request: its startTime is at or after the clock reading of the request,
\* with a when filter and without one.
C29_NoStartedEvent ==
    feed.status = 200 =>
        \A i \in 1..Len(feed.events) :
            events[feed.events[i].id].startTime >= feed.req.now

\* the start of the window of a request: the request time without a
\* filter and for now and month, 17:00 of the day of the request for
\* tonight, 00:00 of the coming Saturday (today, on a Saturday) for weekend
WindowStart(when, now) ==
    CASE when = "tonight" -> now - (now % Day) + 17 * Hour
      [] when = "weekend" -> now - (now % Day) + ((6 - ((now \div Day) % 7) + 7) % 7) * Day
      [] OTHER            -> now

\* C29 as amended: every event of a recommendation response starts at or
\* after the start of the window of the request, which is the time of the
\* request when there is no when filter and for now and month, 17:00 of
\* that day for tonight and 00:00 of the coming Saturday for weekend.
C29_NoEventBeforeWindow ==
    feed.status = 200 =>
        \A i \in 1..Len(feed.events) :
            events[feed.events[i].id].startTime >= WindowStart(feed.req.when, feed.req.now)

\* asked at 19:00 for tonight, the feed returned the event that started at
\* 18:00
C29_Witness ==
    /\ feed.status = 200 /\ feed.req.when = "tonight" /\ feed.req.now = Sunday1900
    /\ Ids(feed.events) = {"e1"}
    /\ events["e1"].startTime = 18 * Hour
    /\ events["e1"].startTime < feed.req.now

\* =================================================================
\* Properties of the RSVP path (SpecRsvp)
\* =================================================================
RsvpPairsUnique(rows) ==
    \A i, j \in 1..Len(rows) :
        (rows[i].userId = rows[j].userId /\ rows[i].eventId = rows[j].eventId) => i = j

\* C10: after every request the RSVP table holds at most one row per (user,
\* event); an RSVP for a pair that has a row keeps the number of rows and
\* sets the row's status, and a cancellation that answers 200 leaves no row
\* of the pair.
C10_OneRsvpPerPair ==
    [][/\ RsvpPairsUnique(rsvps')
       /\ (last'.op = "rsvp" /\ last'.status = 200 /\ rsvps' # rsvps
             /\ RsvpIndex(rsvps, last'.userId, last'.eventId) # {}) =>
             /\ Len(rsvps') = Len(rsvps)
             /\ \A i \in 1..Len(rsvps) :
                   i \notin RsvpIndex(rsvps, last'.userId, last'.eventId) => rsvps'[i] = rsvps[i]
       /\ (last'.op = "cancelRsvp" /\ last'.status = 200) =>
             RsvpIndex(rsvps', last'.userId, last'.eventId) = {}]_vars

\* the latest request was an RSVP of u1 for e1 that found the row it had
\* created before the row of u2, and set it to maybe
C10_Witness ==
    /\ last = Response("rsvp", "u1", "e1", 200)
    /\ Len(rsvps) = 2
    /\ rsvps[1] = [userId |-> "u1", eventId |-> "e1", status |-> "maybe"]
    /\ rsvps[2].userId = "u2" /\ rsvps[2].eventId = "e1"

\* =================================================================
\* Properties of the event path (SpecEvents)
\* =================================================================
EventRequestOps == {"updateEvent", "deleteEvent"}

\* C11: an update or delete request for an event that is not in the store
\* answers 404 and one by a user who is not the event's host answers 403, and
\* both leave the store as it was; an event changes or disappears only by an
\* update or delete request of its host.
C11_OwnerOnly ==
    [][/\ last'.op \in EventRequestOps =>
             /\ last'.eventId \notin DOMAIN events => last'.status = 404 /\ db' = db
             /\ (/\ last'.eventId \in DOMAIN events
                 /\ events[last'.eventId].hostId # last'.userId)
                   => last'.status = 403 /\ db' = db
       /\ \A e \in DOMAIN events :
             (e \notin DOMAIN events' \/ events'[e] # events[e]) =>
                /\ last'.op \in EventRequestOps
                /\ last'.eventId = e
                /\ last'.userId = events[e].hostId
                /\ last'.status = 200]_vars

\* u2 has edited its own event, and its request to delete the event of u1
\* was refused with the event still in place
C11_Witness ==
    /\ last = Response("deleteEvent", "u2", "e1", 403)
    /\ "e1" \in DOMAIN events /\ events["e1"] = EventSeed["e1"]
    /\ "e2" \in DOMAIN events /\ events["e2"].vibe = <<"Foodie">>

\* the stored vector is the embedding of the event: 8 numbers that point
\* the way generateEventEmbedding(event) points (the stored numbers carry no
\* fixed unit), or 8 zeros when the embedding is the zero vector
IsEmbeddingOf(stored, event) ==
    LET e == generateEventEmbedding(event).num
    IN /\ Len(stored) = 8
       /\ Dot(stored, e) * Dot(stored, e) = Dot(stored, stored) * Dot(e, e)
       /\ Dot(e, e) = 0 <=> Dot(stored, stored) = 0
       /\ Dot(e, e) # 0 => Dot(stored, e) > 0

\* C12: after a creation or an edit that succeeded, the stored embedding of
\* the event is the embedding of the event's attributes as they now are.
C12_EmbeddingFollowsEvent ==
    [][(/\ last'.op \in {"createEvent", "updateEvent"}
        /\ last'.status \in {200, 201}
        /\ events' # events)
          => IsEmbeddingOf(events'[last'.eventId].embedding, events'[last'.eventId])]_vars

\* =================================================================
\* Properties of the radius-bounded queries (SpecGeo)
\* =================================================================
\* the distance from the request location to the event cannot be computed
UnknownDistance(eventId) ==
    events[eventId].latitude = NoNumber \/ events[eventId].longitude = NoNumber

Malformed(req) ==
    \/ req.userId = Undefined
    \/ req.lat = NoNumber \/ req.lng = NoNumber
    \/ Abs(req.lat) > LatitudeLimit
    \/ req.when \notin WHEN_VALUES \cup {Undefined}

\* C16: a recommendation request of malformed shape is answered 400, and no
\* candidate is retrieved or scored for it.
C16_MalformedRejected ==
    (feed # NoFeed /\ Malformed(feed.req)) =>
        feed.status = 400 /\ "candidates" \notin DOMAIN feed

\* =================================================================
\* Properties of the library functions (SpecBucket, SpecTaste, SpecEmbed)
\* =================================================================
\* the bucket of a start time as documented: the first window, in the order
\* now, tonight, weekend, that holds the start time
DocumentedBucket(eventDate, now) ==
    LET saturday == StartOfDay(now) + ((6 - GetDay(now) + 7) % 7) * Day
    IN IF eventDate >= now /\ eventDate <= now + 2 * Hour THEN "now"
       ELSE IF /\ eventDate >= StartOfDay(now) + 17 * Hour
               /\ eventDate <= StartOfDay(now) + (Day - 1) THEN "tonight"
       ELSE IF eventDate >= saturday /\ eventDate <= saturday + Day + (Day - 1)
            THEN "weekend"
       ELSE "later"

\* C14: whatever when filter is requested, bucketByWhen returns the documented
\* bucket of the start time, and null when no filter is requested.
C14_BucketOfStartTime ==
    result.op = "bucketByWhen" =>
        result.value = IF result.when = Undefined THEN "null"
                       ELSE DocumentedBucket(result.eventDate, result.now)

\* C17: computeUserTasteVector returns the empty vector whenever no
\* interaction of the list has a valid 8-dimensional embedding, the empty
\* list included.
C17_EmptyWhenNothingQualifies ==
    (/\ result.op = "computeUserTasteVector"
     /\ \A k \in 1..Len(result.interactions) :
           ~ValidEmbedding(result.interactions[k].embedding))
      => result.value.num = <<>>

\* C18: a taste vector is either empty or has 8 components and unit length;
\* it is never 8 zeros.
C18_EmptyOrUnit ==
    result.op = "computeUserTasteVector" =>
        \/ result.value.num = <<>>
        \/ /\ Len(result.value.num) = 8
           /\ result.value.den2 > 0
           /\ Dot(result.value.num, result.value.num) = result.value.den2

\* the calls of generateEventEmbedding made so far
EmbedCalls == IF result = NoOutput THEN <<>> ELSE result.calls

\* C19: every embedding has exactly 8 components and was obtained without a
\* division by 0; it has unit length, or it is the zero vector.
C19_UnitOrZero ==
    \A i \in 1..Len(EmbedCalls) :
        LET v == EmbedCalls[i].value
        IN /\ Len(v.num) = 8
           /\ v.den2 > 0
           /\ Dot(v.num, v.num) = v.den2 \/ v.num = ZeroVector

\* an event no signal matches was embedded as the zero vector, and an event
\* with signals as a vector of unit length
C19_Witness ==
    /\ \E i \in 1..Len(EmbedCalls) :
          EmbedCalls[i].event = PlainEvent /\ EmbedCalls[i].value.num = ZeroVector
    /\ \E i \in 1..Len(EmbedCalls) :
          /\ EmbedCalls[i].value.num # ZeroVector
          /\ Dot(EmbedCalls[i].value.num, EmbedCalls[i].value.num) = EmbedCalls[i].value.den2

\* C20: two calls on the same event return the same vector whatever call
\* came between them, a call leaves its event as it was, and it leaves the
\* state of the keyword patterns as it was.
C20_Deterministic ==
    /\ \A i, j \in 1..Len(EmbedCalls) :
          EmbedCalls[i].event = EmbedCalls[j].event =>
             EmbedCalls[i].value = EmbedCalls[j].value
    /\ \A i \in 1..Len(EmbedCalls) : EmbedCalls[i].after = EmbedCalls[i].event
    /\ lastIndex = [k \in PatternIds |-> 0]

\* an event with a keyword match was embedded, then another event, then the
\* first again
C20_Witness ==
    /\ Len(EmbedCalls) = 3
    /\ EmbedCalls[1].event = EmbedCalls[3].event
    /\ EmbedCalls[2].event # EmbedCalls[1].event
    /\ EmbedCalls[1].event.title = <<"live", "music">>
    /\ EmbedCalls[3].value.num # ZeroVector

\* =================================================================
\* Properties of cosineSimilarity (SpecCosine)

\* either vector empty or absent, the lengths different, or a norm of zero
DegenerateVectors(a, b) ==
    \/ Len(a) = 0 \/ Len(b) = 0
    \/ Len(a) # Len(b)
    \/ \A i \in 1..Len(a) : a[i] = 0
    \/ \A i \in 1..Len(b) : b[i] = 0

\* C21: cosineSimilarity(a, b) equals cosineSimilarity(b, a), and it is
\* exactly 0 (a number, nothing raised) when either vector is empty or
\* absent, when the lengths differ, or when either vector has zero norm;
\* for the function of the scoring engine and for the one of the embedder.
C21_SymmetricAndZeroOnDegenerate ==
    result.op = "cosineSimilarity" =>
        /\ result.engine = result.engineSwapped
        /\ result.embedder = result.embedderSwapped
        /\ result.engine # NoNumber /\ result.embedder # NoNumber
        /\ DegenerateVectors(result.a, result.b) =>
               result.engine = 0 /\ result.embedder = 0

\* a call on vectors of different lengths, neither empty nor of zero norm
C21_Witness ==
    /\ result.op = "cosineSimilarity"
    /\ Len(result.a) = 3 /\ Len(result.b) = 2
    /\ result.a[1] # 0 /\ result.b[1] # 0
    /\ result.engine = 0 /\ result.embedder = 0

\* =================================================================
\* Properties of validateRecommendationInput (SpecValidate)

\* the request of the test suite, which the schema accepts
BaseInput ==
    [userId |-> "123e4567-e89b-12d3-a456-426614174000", lat |-> 5062,
     radiusKm |-> 25, when |-> Str(<<"tonight">>), vibes |-> <<"dance", "music">>,
     max |-> 10, extra |-> FALSE]

\* the request differs from the accepted one in its when value at most
OnlyWhenDiffers(input) == [input EXCEPT !.when = BaseInput.when] = BaseInput

\* the when value as sent is one of now, tonight, weekend, month
SentSupported(raw) ==
    raw.kind = "string" /\ \E w \in {"now", "tonight", "weekend", "month"} : raw.chars = <<w>>

\* C22 as stated: a request whose when value, as sent, is outside
\* {now, tonight, weekend, month} is rejected with a validation error, and
\* a when value inside the set is accepted and returned unchanged.
C22_RejectsUnsupportedWhen ==
    result.op = "validateRecommendationInput" =>
        /\ (result.input.when.kind # "undefined" /\ ~SentSupported(result.input.when))
               => ~result.value.ok
        /\ (SentSupported(result.input.when) /\ OnlyWhenDiffers(result.input))
               => /\ result.value.ok
                  /\ result.value.value.when = result.input.when.chars[1]

\* the when value, with the white space around it removed, is one of now,
\* tonight, weekend, month
TrimmedSupported(raw) ==
    /\ raw.kind = "string"
    /\ \E w \in {"now", "tonight", "weekend", "month"} : Trim(raw.chars) = <<w>>

\* C22 as amended: a request whose when value is present and, with the white
\* space around it removed, is outside {now, tonight, weekend, month} is
\* rejected with a validation error; a when value that is inside the set
\* once trimmed is accepted and returned trimmed.
C22_RejectsUnsupportedTrimmedWhen ==
    result.op = "validateRecommendationInput" =>
        /\ (result.input.when.kind # "undefined" /\ ~TrimmedSupported(result.input.when))
               => ~result.value.ok
        /\ (TrimmedSupported(result.input.when) /\ OnlyWhenDiffers(result.input))
               => /\ result.value.ok
                  /\ result.value.value.when = Trim(result.input.when.chars)[1]

\* the request of the test: when = 'later', everything else acceptable
C22_Witness ==
    /\ result.op = "validateRecommendationInput"
    /\ result.input.when = Str(<<"later">>)
    /\ OnlyWhenDiffers(result.input)
    /\ ~result.value.ok

\* =================================================================
\* Properties of the distance component (SpecDistance)

\* weight_distance x max(0, 1 - distance / radius), 0 at the boundary
DocumentedDistanceScore(distance, radius) ==
    IF distance >= radius THEN 0
    ELSE RoundDiv(WDistance * (radius - distance), radius)

\* C23: for every radius and every candidate with a known distance, the
\* distance component is weight_distance x max(0, 1 - distance / radius):
\* linear in the distance, and 0 for a candidate at the radius boundary.
C23_LinearFalloffToBoundary ==
    result.op = "distanceScore" =>
        result.value = DocumentedDistanceScore(result.distance, result.radius)

\* =================================================================
\* Properties of the time filter and the bucket together (SpecWindow)

\* C26: for when = now, tonight or weekend, a candidate the time range
\* built for that value admits is put by bucketByWhen into the bucket of
\* the same name, at the boundaries of the window too.
C26_AdmittedInSameBucket ==
    (result.op = "timeBucket" /\ result.when \in {"now", "tonight", "weekend"})
        => result.value = result.when

====
